---- MODULE Spec2Model ----
(***************************************************************************)
(* ECG2Signal clinical engine: ArrhythmiaDetector (arrhythmia.py),         *)
(* QTAnalyzer (qt_analysis.py) and ClinicalInterpreter (findings.py).      *)
(*                                                                         *)
(* Numbers.  Every float the code compares against a threshold is kept as  *)
(* an exact rational and compared by cross-multiplication:                 *)
(*   - confidences and power/entropy ratios are in hundredths (0.95 = 95); *)
(*   - RR intervals and peaks are in samples, as in the code;              *)
(*   - heart_rate = 60*sample_rate/mean(rr) is never divided out:          *)
(*     heart_rate < t  is  60*sample_rate*len(rr) < t*sum(rr);             *)
(*   - variation(rr) = std/mean (population std) is compared squared.      *)
(* The signal processing itself (filtfilt, welch, histogram, savgol) is    *)
(* not modelled: a lead's signal is the record of the numbers those steps  *)
(* hand to the decision code, drawn from small sets.                       *)
(* An Optional value is a sequence: <<>> is None, <<v>> is v.              *)
(***************************************************************************)
EXTENDS Integers, Sequences, FiniteSets, TLC

VARIABLES
    detector,   \* the ArrhythmiaDetector instance: sample_rate, min/max_rr_interval
    analyzer,   \* the QTAnalyzer instance: sample_rate
    pc,         \* position of the caller: "call" before the call, then "done" or "raised"
    args,       \* the arguments of the call in flight
    ret         \* what the call returned (a record; [none |-> TRUE] before it returns)

vars == <<detector, analyzer, pc, args, ret>>

NoResult == [none |-> TRUE]

(***************************************************************************)
(* Helpers over sequences.                                                 *)
(***************************************************************************)
RECURSIVE Sum(_)
Sum(s) == IF s = <<>> THEN 0 ELSE Head(s) + Sum(Tail(s))

RECURSIVE SumSq(_)
SumSq(s) == IF s = <<>> THEN 0 ELSE Head(s) * Head(s) + SumSq(Tail(s))

Take(s, n) == SubSeq(s, 1, IF Len(s) < n THEN Len(s) ELSE n)

Range(s) == {s[i] : i \in 1..Len(s)}

RECURSIVE Repeat(_, _)
Repeat(s, n) == IF n = 0 THEN <<>> ELSE s \o Repeat(s, n - 1)

RECURSIVE Gcd(_, _)
Gcd(a, b) == IF b = 0 THEN a ELSE Gcd(b, a % b)

RECURSIVE GcdAll(_)
GcdAll(s) == IF s = <<>> THEN 0 ELSE Gcd(Head(s), GcdAll(Tail(s)))

\* np.diff(peaks)
Diff(peaks) == [i \in 1..(Len(peaks) - 1) |-> peaks[i + 1] - peaks[i]]

\* the peaks whose first differences are rr, starting at sample `first`
RECURSIVE PeaksFrom(_, _)
PeaksFrom(first, rr) ==
    IF rr = <<>> THEN <<first>> ELSE <<first>> \o PeaksFrom(first + Head(rr), Tail(rr))

(***************************************************************************)
(* arrhythmia.py: types and thresholds.                                    *)
(***************************************************************************)
NORMAL == "normal"
AFIB == "atrial_fibrillation"
AFLUTTER == "atrial_flutter"
VT == "ventricular_tachycardia"
VFIB == "ventricular_fibrillation"
PVC == "premature_ventricular_contraction"
PAC == "premature_atrial_contraction"
BRADYCARDIA == "bradycardia"
TACHYCARDIA == "tachycardia"
FIRST_DEGREE_BLOCK == "first_degree_av_block"
SECOND_DEGREE_BLOCK == "second_degree_av_block"
THIRD_DEGREE_BLOCK == "third_degree_av_block"
SINUS_ARRHYTHMIA == "sinus_arrhythmia"

ArrhythmiaType ==
    {NORMAL, AFIB, AFLUTTER, VT, VFIB, PVC, PAC, BRADYCARDIA, TACHYCARDIA,
     FIRST_DEGREE_BLOCK, SECOND_DEGREE_BLOCK, THIRD_DEGREE_BLOCK, SINUS_ARRHYTHMIA}

DefaultSampleRate == 500

BradyLimit == 60
BradyModerate == 50
BradySevere == 40
TachyLimit == 100
TachyModerate == 120
TachySevere == 150

RateConfidence == 95
AFibMinIntervals == 10
AFibCvPct == 30
PWavePlaceholder == 50
PWaveLimit == 30
AFibMaxConfidence == 95
FlutterPowerPct == 20
FlutterConfidence == 75
VentMinIntervals == 3
VTCvPct == 20
VTConfidence == 85
VFibMinPeaks == 3
VFibCvPct == 80
VFibEntropyPct == 80
VFibConfidence == 90
PVCConfidence == 80
PACConfidence == 75
BlockMinIntervals == 10
BlockDoubled == 2
BlockConfidence == 60
PriorityConfidence == 70
FrequentPVC == 10

CRIT_VFIB == "VENTRICULAR FIBRILLATION - IMMEDIATE DEFIBRILLATION REQUIRED"
CRIT_VT == "SEVERE VENTRICULAR TACHYCARDIA - URGENT INTERVENTION NEEDED"
CRIT_BLOCK == "COMPLETE HEART BLOCK - PACEMAKER EVALUATION NEEDED"
CRIT_BRADY == "SEVERE BRADYCARDIA - ASSESS FOR HEMODYNAMIC COMPROMISE"

REC_AFIB ==
    <<"Consider anticoagulation therapy (CHA2DS2-VASc score)",
      "Rate control with beta-blockers or calcium channel blockers",
      "Consider rhythm control strategy if symptomatic">>
REC_VT ==
    <<"Immediate cardiology consultation",
      "Assess for underlying structural heart disease",
      "Consider ICD placement if recurrent">>
REC_PVC == "Frequent PVCs detected - consider 24hr Holter monitoring"
REC_ROUTINE == "Continue routine cardiac monitoring"

\* ArrhythmiaDetection(type, confidence, onset_sample, duration_samples, severity)
Detection(t, conf, sev, onset, dur) ==
    [type |-> t, confidence |-> conf, severity |-> sev,
     onset_sample |-> onset, duration_samples |-> dur]

\* ArrhythmiaDetector.__init__: int() truncates toward zero
IntTrunc(num, den) == IF num >= 0 THEN num \div den ELSE 0 - ((0 - num) \div den)

NewDetector(sample_rate) ==
    [sample_rate |-> sample_rate,
     min_rr_interval |-> IntTrunc(3 * sample_rate, 10),
     max_rr_interval |-> IntTrunc(20 * sample_rate, 10)]

NewAnalyzer(sample_rate) == [sample_rate |-> sample_rate]

(***************************************************************************)
(* Statistics of the RR intervals, as exact comparisons.                   *)
(***************************************************************************)
\* rr divided by its gcd: std/mean and ratios of intervals do not change
Normalised(rr) ==
    LET g == GcdAll(rr) IN IF g = 0 THEN rr ELSE [i \in 1..Len(rr) |-> rr[i] \div g]

\* len(rr)^2 * var(rr), population variance (scipy.stats.variation, np.std: ddof = 0)
VarNum(rr) == Len(rr) * SumSq(rr) - Sum(rr) * Sum(rr)

\* variation(rr) > pct/100
CvGt(rr, pct) ==
    LET y == Normalised(rr) IN 10000 * VarNum(y) > pct * pct * Sum(y) * Sum(y)

\* variation(rr) < pct/100
CvLt(rr, pct) ==
    LET y == Normalised(rr) IN 10000 * VarNum(y) < pct * pct * Sum(y) * Sum(y)

\* mutant of HrNum: the RR intervals taken for milliseconds, 60000 / mean(rr)
HrNumMillis(rr, sample_rate) == 60 * 1000 * Len(rr)

\* heart_rate = 60 * sample_rate / np.mean(rr) as the fraction HrNum / HrDen
HrNum(rr, sample_rate) == 60 * sample_rate * Len(rr)
HrDen(rr) == Sum(rr)

\* mutant of HrGt: heart_rate >= t
HrGtInclusive(rr, sample_rate, t) == HrNum(rr, sample_rate) >= t * HrDen(rr)

\* heart_rate < t and heart_rate > t, for HrDen(rr) > 0
HrLt(rr, sample_rate, t) == HrNum(rr, sample_rate) < t * HrDen(rr)
HrGt(rr, sample_rate, t) == HrNum(rr, sample_rate) > t * HrDen(rr)

(***************************************************************************)
(* ArrhythmiaDetector: the detection passes.                               *)
(* sig is the analysis lead's signal as the numbers the passes read:       *)
(*   len          number of samples                                        *)
(*   detected     the peaks _detect_r_peaks finds in it                    *)
(*   flutter_pct  100 * (PSD power in 4-6 Hz) / (total PSD power)          *)
(*   widths       _estimate_single_qrs_width per peak, a repeating pattern *)
(*   entropy_pct  100 * _calculate_signal_entropy                          *)
(***************************************************************************)
SelectPrimaryLead(signals) ==
    IF \E i \in 1..Len(signals) : signals[i].name = "II"
    THEN CHOOSE i \in 1..Len(signals) : signals[i].name = "II"
    ELSE IF \E i \in 1..Len(signals) : signals[i].name = "I"
    THEN CHOOSE i \in 1..Len(signals) : signals[i].name = "I"
    ELSE 1

EstimateSingleQrsWidth(sig, k) == sig.widths[((k - 1) % Len(sig.widths)) + 1]

EstimateQrsWidths(sig, peaks) == [k \in 1..Len(peaks) |-> EstimateSingleQrsWidth(sig, k)]

\* width > 0.12 * sample_rate
IsWide(width, sample_rate) == 100 * width > 12 * sample_rate

AssessPWaveRegularity == PWavePlaceholder

\* mutant of DetectRateAbnormalities: the tachycardia test written heart_rate >= 100
DetectRateAbnormalitiesInclusive(rr, sample_rate) ==
    IF Len(rr) = 0 THEN <<>>
    ELSE IF HrLt(rr, sample_rate, BradyLimit)
    THEN <<Detection(BRADYCARDIA, RateConfidence,
                     IF HrLt(rr, sample_rate, BradySevere) THEN "severe"
                     ELSE IF HrLt(rr, sample_rate, BradyModerate) THEN "moderate"
                     ELSE "mild", <<>>, <<>>)>>
    ELSE IF ~HrLt(rr, sample_rate, TachyLimit)
    THEN <<Detection(TACHYCARDIA, RateConfidence,
                     IF HrGt(rr, sample_rate, TachySevere) THEN "severe"
                     ELSE IF HrGt(rr, sample_rate, TachyModerate) THEN "moderate"
                     ELSE "mild", <<>>, <<>>)>>
    ELSE <<>>

DetectRateAbnormalities(rr, sample_rate) ==
    IF Len(rr) = 0 THEN <<>>
    ELSE IF HrLt(rr, sample_rate, BradyLimit)
    THEN <<Detection(BRADYCARDIA, RateConfidence,
                     IF HrLt(rr, sample_rate, BradySevere) THEN "severe"
                     ELSE IF HrLt(rr, sample_rate, BradyModerate) THEN "moderate"
                     ELSE "mild", <<>>, <<>>)>>
    ELSE IF HrGt(rr, sample_rate, TachyLimit)
    THEN <<Detection(TACHYCARDIA, RateConfidence,
                     IF HrGt(rr, sample_rate, TachySevere) THEN "severe"
                     ELSE IF HrGt(rr, sample_rate, TachyModerate) THEN "moderate"
                     ELSE "mild", <<>>, <<>>)>>
    ELSE <<>>

\* confidence = min(0.95, cv), in hundredths (rounded down)
AFibConfidence(rr) ==
    LET y == Normalised(rr)
        fits(c) == c * c * Sum(y) * Sum(y) <= 10000 * VarNum(y)
    IN  CHOOSE c \in 0..AFibMaxConfidence :
            fits(c) /\ (c = AFibMaxConfidence \/ ~fits(c + 1))

\* mutant of DetectAfib: the pass decides on RR irregularity alone
DetectAfibByIrregularity(rr) ==
    IF Len(rr) >= AFibMinIntervals /\ CvGt(rr, AFibCvPct)
    THEN <<Detection(AFIB, AFibConfidence(rr), "moderate", <<>>, <<>>)>>
    ELSE <<>>

DetectAfib(rr) ==
    IF Len(rr) < AFibMinIntervals THEN <<>>
    ELSE IF CvGt(rr, AFibCvPct) /\ AssessPWaveRegularity < PWaveLimit
    THEN <<Detection(AFIB, AFibConfidence(rr), "moderate", <<>>, <<>>)>>
    ELSE <<>>

DetectAflutter(sig) ==
    IF sig.flutter_pct > FlutterPowerPct
    THEN <<Detection(AFLUTTER, FlutterConfidence, "moderate", <<>>, <<>>)>>
    ELSE <<>>

\* mutant of DetectVentricularArrhythmias: VT is tested on the QRS width alone at
\* rates above 100 and is severe above 120
DetectVentricularArrhythmiasWideOnly(sig, peaks, rr, sample_rate) ==
    IF Len(rr) < VentMinIntervals THEN <<>>
    ELSE
        (IF /\ HrGt(rr, sample_rate, TachyLimit)
            /\ 100 * Sum(EstimateQrsWidths(sig, peaks)) > 12 * sample_rate * Len(peaks)
         THEN <<Detection(VT, VTConfidence,
                          IF HrGt(rr, sample_rate, TachyModerate) THEN "severe" ELSE "moderate",
                          <<>>, <<>>)>>
         ELSE <<>>)
        \o
        (IF /\ (Len(peaks) < VFibMinPeaks \/ CvGt(rr, VFibCvPct))
            /\ sig.entropy_pct > VFibEntropyPct
         THEN <<Detection(VFIB, VFibConfidence, "severe", <<>>, <<>>)>>
         ELSE <<>>)

DetectVentricularArrhythmias(sig, peaks, rr, sample_rate) ==
    IF Len(rr) < VentMinIntervals THEN <<>>
    ELSE
        (IF /\ HrGt(rr, sample_rate, TachyLimit)
            /\ CvLt(rr, VTCvPct)
            /\ 100 * Sum(EstimateQrsWidths(sig, peaks)) > 12 * sample_rate * Len(peaks)
         THEN <<Detection(VT, VTConfidence,
                          IF HrGt(rr, sample_rate, TachySevere) THEN "severe" ELSE "moderate",
                          <<>>, <<>>)>>
         ELSE <<>>)
        \o
        (IF /\ (Len(peaks) < VFibMinPeaks \/ CvGt(rr, VFibCvPct))
            /\ sig.entropy_pct > VFibEntropyPct
         THEN <<Detection(VFIB, VFibConfidence, "severe", <<>>, <<>>)>>
         ELSE <<>>)

\* the loop body of _detect_ectopic_beats for the 0-based index i = j - 1
EctopicAt(sig, peaks, rr, sample_rate, j) ==
    LET n == Len(rr)
        short == 10 * rr[j] * n < 8 * Sum(rr)
    IN  IF short /\ 10 * rr[j + 1] * n > 12 * Sum(rr)
        THEN IF IsWide(EstimateSingleQrsWidth(sig, j + 1), sample_rate)
             THEN <<Detection(PVC, PVCConfidence, "mild", <<peaks[j + 1]>>,
                              <<EstimateSingleQrsWidth(sig, j + 1)>>)>>
             ELSE <<>>
        ELSE IF short /\ 10 * rr[j + 1] * n < 11 * Sum(rr)
        THEN <<Detection(PAC, PACConfidence, "mild", <<peaks[j + 1]>>, <<>>)>>
        ELSE <<>>

RECURSIVE EctopicFrom(_, _, _, _, _)
EctopicFrom(sig, peaks, rr, sample_rate, j) ==
    IF j > Len(rr) - 1 THEN <<>>
    ELSE EctopicAt(sig, peaks, rr, sample_rate, j)
         \o EctopicFrom(sig, peaks, rr, sample_rate, j + 1)

DetectEctopicBeats(sig, peaks, rr, sample_rate) ==
    IF Len(rr) < VentMinIntervals THEN <<>>
    ELSE EctopicFrom(sig, peaks, rr, sample_rate, 2)

\* np.sum(rr[1:] / rr[:-1] > 1.8)
DoubledIntervals(rr) ==
    Cardinality({i \in 1..(Len(rr) - 1) : 10 * rr[i + 1] > 18 * rr[i]})

DetectHeartBlocks(rr) ==
    IF Len(rr) > BlockMinIntervals /\ DoubledIntervals(rr) > BlockDoubled
    THEN <<Detection(SECOND_DEGREE_BLOCK, BlockConfidence, "moderate", <<>>, <<>>)>>
    ELSE <<>>

(***************************************************************************)
(* ArrhythmiaDetector: the report built from the detections.               *)
(***************************************************************************)
PriorityOrder == <<VFIB, VT, AFIB, AFLUTTER, THIRD_DEGREE_BLOCK>>

Qualifies(detections, t) ==
    \E i \in 1..Len(detections) :
        detections[i].type = t /\ detections[i].confidence > PriorityConfidence

CountOf(detections, t) == Cardinality({i \in 1..Len(detections) : detections[i].type = t})

\* mutant of MostCommon: among the types with the largest count, the one whose first
\* detection is the most confident
MostCommonByConfidence(detections) ==
    LET first(t) == CHOOSE i \in 1..Len(detections) :
                        /\ detections[i].type = t
                        /\ \A k \in 1..(i - 1) : detections[k].type # t
        types == {detections[i].type : i \in 1..Len(detections)}
        key(t) == 1000 * detections[first(t)].confidence - first(t)
    IN  CHOOSE t \in types :
            \A u \in types :
                \/ CountOf(detections, t) > CountOf(detections, u)
                \/ CountOf(detections, t) = CountOf(detections, u) /\ key(t) >= key(u)

\* max(type_counts.items(), key=count): the dict keeps the types in the order of their
\* first detection, and max returns the first entry with the largest count
MostCommon(detections) ==
    LET first(t) == CHOOSE i \in 1..Len(detections) :
                        /\ detections[i].type = t
                        /\ \A k \in 1..(i - 1) : detections[k].type # t
        types == {detections[i].type : i \in 1..Len(detections)}
    IN  CHOOSE t \in types :
            \A u \in types :
                \/ CountOf(detections, t) > CountOf(detections, u)
                \/ CountOf(detections, t) = CountOf(detections, u) /\ first(t) <= first(u)

\* mutant of DeterminePrimaryRhythm: the two loops swapped, so the first confident
\* detection of any priority type in the list wins
DeterminePrimaryRhythmListOrder(detections) ==
    LET confident(i) == /\ detections[i].type \in Range(PriorityOrder)
                        /\ detections[i].confidence > PriorityConfidence
    IN  IF detections = <<>> THEN NORMAL
        ELSE IF \E i \in 1..Len(detections) : confident(i)
        THEN detections[CHOOSE i \in 1..Len(detections) :
                            confident(i) /\ \A k \in 1..(i - 1) : ~confident(k)].type
        ELSE MostCommon(detections)

DeterminePrimaryRhythm(detections) ==
    IF detections = <<>> THEN NORMAL
    ELSE IF \E p \in 1..Len(PriorityOrder) : Qualifies(detections, PriorityOrder[p])
    THEN PriorityOrder[CHOOSE p \in 1..Len(PriorityOrder) :
                           /\ Qualifies(detections, PriorityOrder[p])
                           /\ \A q \in 1..(p - 1) : ~Qualifies(detections, PriorityOrder[q])]
    ELSE MostCommon(detections)

\* mean of the per-beat rates 60 * sample_rate / rr[i], as the fraction num / den
\* (den = 0: the code returns 0.0, 0.0); std_zero says whether their std is 0
CalculateHeartRateStats(rr, sample_rate) ==
    IF Len(rr) = 0 THEN [num |-> 0, den |-> 0, std_zero |-> TRUE]
    ELSE LET y == Normalised(rr)
             g == GcdAll(rr)
             RECURSIVE Lcm(_)
             Lcm(s) == IF s = <<>> THEN 1
                       ELSE LET l == Lcm(Tail(s)) IN (Head(s) * l) \div Gcd(Head(s), l)
             L == Lcm(y)
         IN  [num |-> 60 * sample_rate * Sum([i \in 1..Len(y) |-> L \div y[i]]),
              den |-> Len(y) * L * g,
              std_zero |-> \A i \in 1..Len(rr) : rr[i] = rr[1]]

\* variation(rr)^2 as the fraction num / den; 0.0 for no intervals
RRIrregularity(rr) ==
    IF Len(rr) = 0 THEN [num |-> 0, den |-> 1]
    ELSE LET y == Normalised(rr) IN [num |-> VarNum(y), den |-> Sum(y) * Sum(y)]

\* burden[type] = 100 * duration[type] / total_samples: the summed duration_samples
CalculateBurden(detections) ==
    [t \in {detections[i].type : i \in 1..Len(detections)} |->
        Sum([i \in 1..Len(detections) |->
                IF detections[i].type = t /\ detections[i].duration_samples # <<>>
                THEN detections[i].duration_samples[1] ELSE 0])]

\* mutant of CriticalOf: the severity test of the VT branch dropped
CriticalOfAnyVT(d) ==
    IF d.type = VFIB THEN <<CRIT_VFIB>>
    ELSE IF d.type = VT THEN <<CRIT_VT>>
    ELSE IF d.type = THIRD_DEGREE_BLOCK THEN <<CRIT_BLOCK>>
    ELSE IF d.type = BRADYCARDIA /\ d.severity = "severe" THEN <<CRIT_BRADY>>
    ELSE <<>>

CriticalOf(d) ==
    IF d.type = VFIB THEN <<CRIT_VFIB>>
    ELSE IF d.type = VT /\ d.severity = "severe" THEN <<CRIT_VT>>
    ELSE IF d.type = THIRD_DEGREE_BLOCK THEN <<CRIT_BLOCK>>
    ELSE IF d.type = BRADYCARDIA /\ d.severity = "severe" THEN <<CRIT_BRADY>>
    ELSE <<>>

RECURSIVE IdentifyCriticalFindings(_)
IdentifyCriticalFindings(detections) ==
    IF detections = <<>> THEN <<>>
    ELSE CriticalOf(Head(detections)) \o IdentifyCriticalFindings(Tail(detections))

GenerateRecommendations(detections, primary_rhythm) ==
    LET specific == IF primary_rhythm = AFIB THEN REC_AFIB
                    ELSE IF primary_rhythm = VT THEN REC_VT
                    ELSE <<>>
        pvcs == IF CountOf(detections, PVC) > FrequentPVC THEN <<REC_PVC>> ELSE <<>>
    IN  IF specific \o pvcs = <<>> THEN <<REC_ROUTINE>> ELSE specific \o pvcs

\* the body of detect() once the analysis lead and its peaks are known
ReportFor(sig, peaks, sample_rate) ==
    LET rr == IF Len(peaks) > 1 THEN Diff(peaks) ELSE <<>>
        detections ==
            DetectRateAbnormalities(rr, sample_rate)
            \o DetectAfib(rr)
            \o DetectAflutter(sig)
            \o DetectVentricularArrhythmias(sig, peaks, rr, sample_rate)
            \o DetectEctopicBeats(sig, peaks, rr, sample_rate)
            \o DetectHeartBlocks(rr)
        primary_rhythm == DeterminePrimaryRhythm(detections)
    IN  [detections |-> detections,
         primary_rhythm |-> primary_rhythm,
         heart_rate |-> CalculateHeartRateStats(rr, sample_rate),
         rr_irregularity |-> RRIrregularity(rr),
         ectopic_beats |-> CountOf(detections, PVC) + CountOf(detections, PAC),
         burden |-> CalculateBurden(detections),
         critical_findings |-> IdentifyCriticalFindings(detections),
         recommendations |-> GenerateRecommendations(detections, primary_rhythm)]

\* detect(signals, r_peaks): signals is the dict as a sequence of [name, sig] in
\* insertion order; r_peaks is None (<<>>) or <<the dict as a function lead -> peaks>>
DetectReport(d, signals, r_peaks) ==
    LET lead == signals[SelectPrimaryLead(signals)]
        peaks == IF r_peaks = <<>> \/ lead.name \notin DOMAIN r_peaks[1]
                 THEN lead.sig.detected
                 ELSE r_peaks[1][lead.name]
    IN  ReportFor(lead.sig, peaks, d.sample_rate)

(***************************************************************************)
(* Inputs of detect().                                                     *)
(***************************************************************************)
MaxMotif == 3
MaxReps == 4

\* RR intervals in samples; at 500 Hz they are 200, 150, 100, 50, 40 and 33.3 BPM, and
\* their means reach the other thresholds (200 and 300: 120 BPM; 300, 600, 600: 60 BPM)
RRValues == {150, 200, 300, 600, 750, 900}

Motifs == UNION {[1..n -> RRValues] : n \in 0..MaxMotif}

\* the spacings of the regular leads: the 75 BPM of test_normal_rhythm_detection is
\* 0.8 s, 400 samples at 500 Hz; 800 samples are 1.6 s
RegularRR == {400, 800}

\* a fast rhythm without order: 160 BPM with a coefficient of variation of 1.27
FastChaoticRR == {<<50, 50, 50, 600>>}

\* a motif once (a short recording), or repeated into a long one
RRLists ==
    {Repeat(m, k) : m \in Motifs \cup {<<v>> : v \in RegularRR} \cup FastChaoticRR,
                    k \in {1, MaxReps, MaxReps + 1}}

\* QRS widths in samples: 40 is the 80 ms default, 70 is 140 ms
WidthPatterns == {<<40>>, <<70>>, <<40, 70>>}

Signal(peaks, flutter, widths, entropy) ==
    [len |-> 20000, detected |-> peaks, flutter_pct |-> flutter,
     widths |-> widths, entropy_pct |-> entropy]

\* a lead with no peak, no flutter power, default widths and low entropy
FlatSignal == Signal(<<>>, 0, <<40>>, 50)

\* one lead "II" whose peaks the detector finds itself
RhythmInputs ==
    {[op |-> "detect",
      signals |-> <<[name |-> "II", sig |-> Signal(PeaksFrom(100, rr), fe[1], w, fe[2])]>>,
      r_peaks |-> <<>>] :
        rr \in RRLists, fe \in {<<10, 50>>, <<30, 50>>, <<10, 90>>}, w \in WidthPatterns}

LeadOrders == {<<>>, <<"II">>, <<"I", "II">>, <<"V1", "I">>, <<"V5", "V1">>, <<"II", "I">>}

\* several leads, with the threshold values of the ratios; the peaks are absent,
\* supplied for every lead, or supplied for the other leads only
LeadInputs ==
    {[op |-> "detect",
      signals |-> [i \in 1..Len(names) |->
                      [name |-> names[i],
                       sig |-> IF i = pick THEN Signal(found, f, <<70>>, e) ELSE FlatSignal]],
      r_peaks |-> given] :
        names \in LeadOrders, pick \in 1..2,
        found \in {<<>>, <<100>>, PeaksFrom(100, <<250, 250, 250>>)},
        f \in {20, 21}, e \in {80, 81},
        given \in {<<>>,
                   <<[l \in {"I", "II", "V1", "V5"} |-> PeaksFrom(100, <<750, 900, 900>>)]>>,
                   <<[l \in {"V5"} |-> PeaksFrom(100, <<200, 150, 150>>)]>>}}

DetectInputs == RhythmInputs \cup LeadInputs

\* the RR intervals detect() works on (arrhythmia.py, lines 103-112)
AnalysedRR ==
    LET lead == args.signals[SelectPrimaryLead(args.signals)]
        peaks == IF args.r_peaks = <<>> \/ lead.name \notin DOMAIN args.r_peaks[1]
                 THEN lead.sig.detected
                 ELSE args.r_peaks[1][lead.name]
    IN  IF Len(peaks) > 1 THEN Diff(peaks) ELSE <<>>

(***************************************************************************)
(* detect() as one call.                                                   *)
(***************************************************************************)
InitDetect ==
    /\ detector = NewDetector(DefaultSampleRate)
    /\ analyzer = NewAnalyzer(DefaultSampleRate)
    /\ pc = "call"
    /\ args \in DetectInputs
    /\ ret = NoResult

\* next(iter(signals.items())) on an empty dict raises StopIteration
Detect ==
    /\ pc = "call"
    /\ args.op = "detect"
    /\ IF args.signals = <<>>
       THEN pc' = "raised" /\ ret' = [error |-> "StopIteration"]
       ELSE pc' = "done" /\ ret' = DetectReport(detector, args.signals, args.r_peaks)
    /\ UNCHANGED <<detector, analyzer, args>>

NextDetect == Detect

SpecDetect == InitDetect /\ [][NextDetect]_vars

(***************************************************************************)
(* _determine_primary_rhythm on any list of detections.                    *)
(***************************************************************************)
MaxDetections == 4

\* type and confidence (hundredths) of the detections drawn
DetectionKinds ==
    {<<VFIB, 90>>, <<VT, 85>>, <<AFIB, 95>>, <<AFIB, 70>>, <<AFLUTTER, 75>>,
     <<THIRD_DEGREE_BLOCK, 80>>, <<THIRD_DEGREE_BLOCK, 60>>, <<PVC, 80>>,
     <<PAC, 75>>, <<BRADYCARDIA, 95>>}

DetectionLists ==
    UNION {[1..n -> {Detection(k[1], k[2], "moderate", <<>>, <<>>) : k \in DetectionKinds}] :
              n \in 0..MaxDetections}

InitPrimary ==
    /\ detector = NewDetector(DefaultSampleRate)
    /\ analyzer = NewAnalyzer(DefaultSampleRate)
    /\ pc = "call"
    /\ args \in {[op |-> "primary", detections |-> d] : d \in DetectionLists}
    /\ ret = NoResult

DeterminePrimary ==
    /\ pc = "call"
    /\ args.op = "primary"
    /\ pc' = "done"
    /\ ret' = [primary_rhythm |-> DeterminePrimaryRhythm(args.detections)]
    /\ UNCHANGED <<detector, analyzer, args>>

NextPrimary == DeterminePrimary

SpecPrimary == InitPrimary /\ [][NextPrimary]_vars

(***************************************************************************)
(* Exact fractions [num, den], den > 0, kept in lowest terms.              *)
(***************************************************************************)
Abs(x) == IF x < 0 THEN 0 - x ELSE x

Rat(n, d) ==
    LET g == Gcd(Abs(n), d) IN [num |-> (Abs(n) \div g) * (IF n < 0 THEN 0 - 1 ELSE 1),
                                den |-> d \div g]

RatAdd(x, y) ==
    LET l == (x.den * y.den) \div Gcd(x.den, y.den)
    IN  Rat(x.num * (l \div x.den) + y.num * (l \div y.den), l)

RatSub(x, y) == RatAdd(x, [num |-> 0 - y.num, den |-> y.den])

RatLt(x, y) == x.num * y.den < y.num * x.den

\* x > n for an integer n
RatGtInt(x, n) == x.num > n * x.den

RECURSIVE RatSum(_)
RatSum(s) == IF s = <<>> THEN Rat(0, 1) ELSE RatAdd(Head(s), RatSum(Tail(s)))

\* np.mean of a non-empty sequence of fractions
RatMean(s) == LET t == RatSum(s) IN Rat(t.num, t.den * Len(s))

RatMax(s) == CHOOSE x \in Range(s) : \A y \in Range(s) : ~RatLt(x, y)
RatMin(s) == CHOOSE x \in Range(s) : \A y \in Range(s) : ~RatLt(y, x)

\* floor of the square root, by bisection on lo..hi
RECURSIVE SqrtBetween(_, _, _)
SqrtBetween(x, lo, hi) ==
    IF lo >= hi THEN lo
    ELSE LET mid == (lo + hi + 1) \div 2
         IN  IF mid * mid <= x THEN SqrtBetween(x, mid, hi) ELSE SqrtBetween(x, lo, mid - 1)

Isqrt(x) == SqrtBetween(x, 0, 46340)

(***************************************************************************)
(* qt_analysis.py: QTAnalyzer.                                             *)
(* A lead's signal is, for the analyzer, the record of                     *)
(*   len     number of samples                                             *)
(*   t_end   <<offset>> from the R peak at which the smoothed beat comes   *)
(*           back within 10% of the T-peak amplitude of the baseline, or   *)
(*           <<>> when it never does                                       *)
(*   noisy   std(diff(beat)) > 0.1 * std(beat)                             *)
(* np.sqrt(rr_sec) is exact here: the RR intervals drawn make              *)
(* rr * sample_rate a perfect square.  The cube root of Fridericia is kept *)
(* unevaluated.                                                            *)
(***************************************************************************)
RISK_NORMAL == "normal"
RISK_BORDERLINE == "borderline"
RISK_PROLONGED == "prolonged"
RISK_SEVERE == "severely_prolonged"

NormalQtcMale == 450
NormalQtcFemale == 470
BorderlineOffset == 10
ProlongedOffset == 30
NeutralNormalMax == 460
NeutralBorderline == 470
NeutralProlonged == 500
DispersionLimit == 100
DefaultMeanQt == 400
DefaultMeanQtc == 420
DefaultStdQt == 20
MinSegment == 50
SavgolWindow == 51

DRUGS ==
    <<"Antiarrhythmics: amiodarone, sotalol, quinidine",
      "Antibiotics: azithromycin, levofloxacin, moxifloxacin",
      "Antipsychotics: haloperidol, ziprasidone, quetiapine",
      "Antidepressants: citalopram, escitalopram",
      "Antiemetics: ondansetron, droperidol",
      "Antifungals: fluconazole, ketoconazole">>

NOTES_PROLONGED ==
    <<"Review all medications for QT-prolonging drugs",
      "Check electrolytes (K+, Mg2+, Ca2+)",
      "Consider genetic testing for congenital LQTS",
      "Avoid strenuous exercise">>
NOTES_SEVERE ==
    <<"URGENT: Consider ICD placement if symptomatic",
      "Strict avoidance of QT-prolonging medications">>
NOTE_DISPERSION == "Elevated QT dispersion suggests increased arrhythmia risk"
NOTE_NONE == "No specific interventions required"

\* str.upper() on the gender strings drawn
Upper(g) == IF g = "m" THEN "M" ELSE IF g = "f" THEN "F" ELSE IF g = "male" THEN "MALE" ELSE g

\* `gender and gender.upper() == c`: None and "" are falsy
GenderIs(gender, c) == gender # <<>> /\ gender[1] # "" /\ Upper(gender[1]) = c

\* _find_t_wave_end on a beat segment of seglen samples: <<>> is None
\* mutant of FindTWaveEnd: the 400 ms default is returned as it is
FindTWaveEndUnclamped(sig, seglen, sample_rate) ==
    LET qrs_end == IntTrunc(15 * sample_rate, 100)
        t_search_start == IF qrs_end < seglen - 10 THEN qrs_end ELSE seglen - 10
    IN  IF seglen < MinSegment THEN <<>>
        ELSE IF sig.t_end # <<>> /\ sig.t_end[1] >= t_search_start /\ sig.t_end[1] < seglen
        THEN sig.t_end
        ELSE <<IntTrunc(4 * sample_rate, 10)>>

FindTWaveEnd(sig, seglen, sample_rate) ==
    LET w == IF SavgolWindow < seglen - 1 THEN SavgolWindow ELSE seglen - 1
        window_length == IF w % 2 = 0 THEN w - 1 ELSE w
        qrs_end == IntTrunc(15 * sample_rate, 100)
        t_search_start == IF qrs_end < seglen - 10 THEN qrs_end ELSE seglen - 10
        half == IntTrunc(5 * sample_rate, 10)
        t_search_end == IF half < seglen THEN half ELSE seglen
        default_qt == IntTrunc(4 * sample_rate, 10)
    IN  IF seglen < MinSegment THEN <<>>
        ELSE IF window_length < 5 THEN <<>>
        ELSE IF t_search_end <= t_search_start THEN <<>>
        ELSE IF sig.t_end # <<>> /\ sig.t_end[1] >= t_search_start /\ sig.t_end[1] < seglen
        THEN sig.t_end
        ELSE <<IF default_qt < seglen - 1 THEN default_qt ELSE seglen - 1>>

\* _assess_measurement_quality, in hundredths
AssessMeasurementQuality(sig, t_end, sample_rate) ==
    LET q1 == IF sig.noisy THEN 80 ELSE 100
        off == Abs(t_end - IntTrunc(35 * sample_rate, 100)) > IntTrunc(2 * sample_rate, 10)
    IN  IF off THEN (q1 * 70) \div 100 ELSE q1

\* qt_ms / np.sqrt(rr_sec) = 1000 * t_end / sqrt(rr_samples * sample_rate)
CorrectQtBazett(t_end, rr_samples, sample_rate) ==
    Rat(1000 * t_end, Isqrt(rr_samples * sample_rate))

\* qt_ms / rr_sec ** (1/3), unevaluated
CorrectQtFridericia(t_end, rr_samples, sample_rate) ==
    [qt_ms |-> Rat(1000 * t_end, sample_rate), cube_root_of |-> Rat(rr_samples, sample_rate)]

\* mutant of CorrectQtFramingham: qt_ms + 154 * (rr_sec - 1)
CorrectQtFraminghamInverted(t_end, rr_samples, sample_rate) ==
    Rat(1000 * t_end + 154 * (rr_samples - sample_rate), sample_rate)

\* qt_ms + 154 * (1 - rr_sec)
CorrectQtFramingham(t_end, rr_samples, sample_rate) ==
    Rat(1000 * t_end + 154 * (sample_rate - rr_samples), sample_rate)

\* qt_ms + 1.75 * (heart_rate - 60), heart_rate = 60 / rr_sec
CorrectQtHodges(t_end, rr_samples, sample_rate) ==
    RatAdd(Rat(1000 * t_end, sample_rate), Rat(105 * (sample_rate - rr_samples), rr_samples))

\* the loop body of _measure_qt_intervals for the beat from peaks[i] to peaks[i + 1]
MeasureBeat(sig, peaks, i, lead_name, sample_rate) ==
    LET r_peak == peaks[i]
        next_r_peak == peaks[i + 1]
        limit == r_peak + IntTrunc(8 * sample_rate, 10)
        beat_end == IF next_r_peak < limit THEN next_r_peak ELSE limit
        stop == IF beat_end < sig.len THEN beat_end ELSE sig.len
        seglen == IF stop > r_peak THEN stop - r_peak ELSE 0
        t == FindTWaveEnd(sig, seglen, sample_rate)
        rr_samples == next_r_peak - r_peak
    IN  IF seglen < IntTrunc(2 * sample_rate, 10) THEN <<>>
        ELSE IF t = <<>> THEN <<>>
        ELSE <<[qt_interval |-> Rat(1000 * t[1], sample_rate),
                qtc_bazett |-> CorrectQtBazett(t[1], rr_samples, sample_rate),
                qtc_fridericia |-> CorrectQtFridericia(t[1], rr_samples, sample_rate),
                qtc_framingham |-> CorrectQtFramingham(t[1], rr_samples, sample_rate),
                qtc_hodges |-> CorrectQtHodges(t[1], rr_samples, sample_rate),
                rr_interval |-> Rat(1000 * rr_samples, sample_rate),
                heart_rate |-> Rat(60 * sample_rate, rr_samples),
                lead_name |-> lead_name,
                measurement_quality |-> AssessMeasurementQuality(sig, t[1], sample_rate)]>>

RECURSIVE MeasureFrom(_, _, _, _, _)
MeasureFrom(sig, peaks, i, lead_name, sample_rate) ==
    IF i > Len(peaks) - 1 THEN <<>>
    ELSE MeasureBeat(sig, peaks, i, lead_name, sample_rate)
         \o MeasureFrom(sig, peaks, i + 1, lead_name, sample_rate)

MeasureQtIntervals(sig, peaks, lead_name, sample_rate) ==
    MeasureFrom(sig, peaks, 1, lead_name, sample_rate)

\* the leads of the measurements, in the order of their first measurement
RECURSIVE LeadsOf(_)
LeadsOf(measurements) ==
    IF measurements = <<>> THEN <<>>
    ELSE LET rest == LeadsOf(SubSeq(measurements, 1, Len(measurements) - 1))
             l == measurements[Len(measurements)].lead_name
         IN  IF l \in Range(rest) THEN rest ELSE Append(rest, l)

CalculateDispersion(measurements) ==
    LET leads == LeadsOf(measurements)
        of(l) == SelectSeq(measurements, LAMBDA m : m.lead_name = l)
        mean_qt == [i \in 1..Len(leads) |->
                       RatMean([k \in 1..Len(of(leads[i])) |-> of(leads[i])[k].qt_interval])]
        mean_qtc == [i \in 1..Len(leads) |->
                       RatMean([k \in 1..Len(of(leads[i])) |-> of(leads[i])[k].qtc_bazett])]
    IN  [max_qt |-> RatMax(mean_qt),
         min_qt |-> RatMin(mean_qt),
         dispersion |-> RatSub(RatMax(mean_qt), RatMin(mean_qt)),
         dispersion_qtc |-> RatSub(RatMax(mean_qtc), RatMin(mean_qtc)),
         lead_measurements |-> [i \in 1..Len(leads) |-> <<leads[i], mean_qt[i]>>]]

\* QTDispersion.is_abnormal of an Optional dispersion
IsAbnormal(dispersion) ==
    dispersion # <<>> /\ RatGtInt(dispersion[1].dispersion, DispersionLimit)

\* _assess_risk with the offsets of the two named genders applied to the neutral
\* maximum as well
AssessRiskUniform(qtc, gender) ==
    LET normal_max == IF GenderIs(gender, "M") THEN NormalQtcMale
                      ELSE IF GenderIs(gender, "F") THEN NormalQtcFemale
                      ELSE NeutralNormalMax
    IN  IF RatGtInt(qtc, normal_max + ProlongedOffset) THEN RISK_SEVERE
        ELSE IF RatGtInt(qtc, normal_max + BorderlineOffset) THEN RISK_PROLONGED
        ELSE IF RatGtInt(qtc, normal_max) THEN RISK_BORDERLINE
        ELSE RISK_NORMAL

AssessRisk(qtc, gender) ==
    LET normal_max == IF GenderIs(gender, "M") THEN NormalQtcMale
                      ELSE IF GenderIs(gender, "F") THEN NormalQtcFemale
                      ELSE NeutralNormalMax
        borderline == IF GenderIs(gender, "M") \/ GenderIs(gender, "F")
                      THEN normal_max + BorderlineOffset ELSE NeutralBorderline
        prolonged == IF GenderIs(gender, "M") \/ GenderIs(gender, "F")
                     THEN normal_max + ProlongedOffset ELSE NeutralProlonged
    IN  IF RatGtInt(qtc, prolonged) THEN RISK_SEVERE
        ELSE IF RatGtInt(qtc, borderline) THEN RISK_PROLONGED
        ELSE IF RatGtInt(qtc, normal_max) THEN RISK_BORDERLINE
        ELSE RISK_NORMAL

\* the sentences of the interpretation after the two numbers
GenerateInterpretation(risk, gender, dispersion) ==
    <<IF risk = RISK_NORMAL THEN "- Within normal limits."
      ELSE IF risk = RISK_BORDERLINE THEN "- Borderline prolonged. Monitor and recheck."
      ELSE IF risk = RISK_PROLONGED THEN "- PROLONGED. Risk of torsades de pointes."
      ELSE "- SEVERELY PROLONGED. HIGH RISK of sudden cardiac death.">>
    \o (IF IsAbnormal(dispersion) THEN <<"QT dispersion is elevated">> ELSE <<>>)

GenerateClinicalNotes(risk, dispersion) ==
    LET notes == (IF risk \in {RISK_PROLONGED, RISK_SEVERE} THEN NOTES_PROLONGED ELSE <<>>)
                 \o (IF risk = RISK_SEVERE THEN NOTES_SEVERE ELSE <<>>)
                 \o (IF IsAbnormal(dispersion) THEN <<NOTE_DISPERSION>> ELSE <<>>)
    IN  IF notes = <<>> THEN <<NOTE_NONE>> ELSE notes

\* _check_drug_interactions returning the list for the prolonged levels only
CheckDrugInteractionsProlongedOnly(risk) ==
    IF risk \in {RISK_NORMAL, RISK_BORDERLINE} THEN <<>> ELSE DRUGS

CheckDrugInteractions(risk) == IF risk = RISK_NORMAL THEN <<>> ELSE DRUGS

\* QTAnalysis.is_prolonged
IsProlonged(analysis) == analysis.risk_level \in {RISK_PROLONGED, RISK_SEVERE}

\* the measurements of the leads from index i on (the loop of analyze)
RECURSIVE MeasureLeads(_, _, _, _)
MeasureLeads(signals, r_peaks, i, sample_rate) ==
    IF i > Len(signals) THEN <<>>
    ELSE (IF signals[i].name \notin DOMAIN r_peaks \/ Len(r_peaks[signals[i].name]) < 2
          THEN <<>>
          ELSE MeasureQtIntervals(signals[i].sig, r_peaks[signals[i].name],
                                  signals[i].name, sample_rate))
         \o MeasureLeads(signals, r_peaks, i + 1, sample_rate)

DefaultAnalysis ==
    [measurements |-> <<>>,
     mean_qt |-> Rat(DefaultMeanQt, 1),
     mean_qtc |-> Rat(DefaultMeanQtc, 1),
     std_qt |-> [squared |-> Rat(DefaultStdQt * DefaultStdQt, 1)],
     dispersion |-> <<>>,
     risk_level |-> RISK_NORMAL,
     gender_specific_normal |-> TRUE,
     interpretation |-> <<"Unable to measure QT intervals">>,
     clinical_notes |-> <<>>,
     drug_interactions |-> <<>>]

\* analyze() for a peak map that is a dict; std_qt is kept as its square
AnalysisFor(a, signals, r_peaks, gender) ==
    LET measurements == MeasureLeads(signals, r_peaks, 1, a.sample_rate)
        n == Len(measurements)
        qt == [k \in 1..n |-> measurements[k].qt_interval]
        mean_qt == RatMean(qt)
        mean_qtc == RatMean([k \in 1..n |-> measurements[k].qtc_bazett])
        dev == [k \in 1..n |-> LET d == RatSub(qt[k], mean_qt) IN Rat(d.num * d.num, d.den * d.den)]
        dispersion == IF n >= 2 THEN <<CalculateDispersion(measurements)>> ELSE <<>>
        risk_level == AssessRisk(mean_qtc, gender)
    IN  IF measurements = <<>> THEN DefaultAnalysis
        ELSE [measurements |-> measurements,
              mean_qt |-> mean_qt,
              mean_qtc |-> mean_qtc,
              std_qt |-> [squared |-> RatMean(dev)],
              dispersion |-> dispersion,
              risk_level |-> risk_level,
              gender_specific_normal |-> gender # <<>>,
              interpretation |-> GenerateInterpretation(risk_level, gender, dispersion),
              clinical_notes |-> GenerateClinicalNotes(risk_level, dispersion),
              drug_interactions |-> CheckDrugInteractions(risk_level)]

(***************************************************************************)
(* Calls of QTAnalyzer: analyze() on leads with their peaks, and           *)
(* _assess_risk on a QTc (in half milliseconds) and a gender.              *)
(***************************************************************************)
MaxBeats == 2
MinQtc == 440
MaxQtc == 530

QtSignal(len, t_end, noisy) == [len |-> len, t_end |-> t_end, noisy |-> noisy]

\* RR intervals in samples; rr * 500 is a perfect square for each
QtRRValues == {80, 125, 320, 500, 2000}

QtRRLists == UNION {[1..n -> QtRRValues] : n \in 1..MaxBeats}

Genders == {<<>>, <<"M">>, <<"m">>, <<"F">>, <<"f">>, <<"">>, <<"male">>, <<"X">>}

TEndOffsets ==
    {<<>>, <<60>>, <<75>>, <<180>>, <<225>>, <<226>>, <<230>>, <<235>>, <<236>>, <<240>>,
     <<245>>, <<246>>, <<250>>, <<251>>, <<260>>, <<390>>, <<399>>, <<400>>}

\* one lead "II" with its peaks
BeatInputs ==
    {[op |-> "analyze",
      signals |-> <<[name |-> "II", sig |-> QtSignal(20000, t, noisy)]>>,
      r_peaks |-> <<[l \in {"II"} |-> peaks]>>,
      gender |-> g] :
        t \in TEndOffsets, noisy \in BOOLEAN,
        peaks \in {<<>>, <<100>>} \cup {PeaksFrom(100, rr) : rr \in QtRRLists},
        g \in {<<>>, <<"M">>, <<"F">>, <<"f">>}}

QtLeadOrders == {<<>>, <<"II">>, <<"II", "V1">>, <<"V1", "II", "V5">>}

\* several leads; lead II has its own T-wave end; the peak map is absent, complete,
\* for V1 only, or has a single peak for II
QtLeadInputs ==
    {[op |-> "analyze",
      signals |-> [i \in 1..Len(names) |->
                      [name |-> names[i],
                       sig |-> QtSignal(len, IF names[i] = "II" THEN <<t[1]>> ELSE <<t[2]>>,
                                        FALSE)]],
      r_peaks |-> given,
      gender |-> g] :
        names \in QtLeadOrders, len \in {20000, 700, 150},
        t \in {<<200, 200>>, <<200, 250>>, <<200, 251>>, <<260, 200>>},
        given \in {<<>>,
                   <<[l \in {"II", "V1", "V5"} |-> PeaksFrom(100, <<500, 500>>)]>>,
                   <<[l \in {"V1"} |-> PeaksFrom(100, <<500, 500>>)]>>,
                   <<[l \in {"II", "V1"} |->
                        IF l = "II" THEN <<100>> ELSE PeaksFrom(100, <<500>>)]>>},
        g \in {<<>>, <<"M">>}}

RiskInputs ==
    {[op |-> "assess_risk", qtc |-> Rat(n, 2), gender |-> g] :
        n \in (2 * MinQtc)..(2 * MaxQtc), g \in Genders}

InitQT ==
    /\ detector = NewDetector(DefaultSampleRate)
    /\ analyzer = NewAnalyzer(DefaultSampleRate)
    /\ pc = "call"
    /\ args \in BeatInputs \cup QtLeadInputs \cup RiskInputs
    /\ ret = NoResult

\* `lead_name not in r_peaks` on r_peaks = None raises TypeError at the first lead
Analyze ==
    /\ pc = "call"
    /\ args.op = "analyze"
    /\ IF args.signals # <<>> /\ args.r_peaks = <<>>
       THEN pc' = "raised" /\ ret' = [error |-> "TypeError"]
       ELSE /\ pc' = "done"
            /\ ret' = AnalysisFor(analyzer, args.signals,
                                  IF args.r_peaks = <<>> THEN <<>> ELSE args.r_peaks[1],
                                  args.gender)
    /\ UNCHANGED <<detector, analyzer, args>>

AssessRiskCall ==
    /\ pc = "call"
    /\ args.op = "assess_risk"
    /\ pc' = "done"
    /\ ret' = [risk_level |-> AssessRisk(args.qtc, args.gender)]
    /\ UNCHANGED <<detector, analyzer, args>>

NextQT == Analyze \/ AssessRiskCall

SpecQT == InitQT /\ [][NextQT]_vars

(***************************************************************************)
(* findings.py: ClinicalInterpreter.                                       *)
(* A finding is kept as category, name, severity and confidence            *)
(* (hundredths); its free texts are left out, and the texts kept are      *)
(* written without their non-ASCII characters.  For the interpreter a      *)
(* lead's signal is the record of its number of samples and, in hundredths *)
(* of a millivolt, its mean, median, maximum, minimum and the mean of the  *)
(* samples from 0.08 s to 0.12 s (st).                                     *)
(***************************************************************************)
SEV_NORMAL == "normal"
SEV_BENIGN == "benign"
SEV_MILD == "mild"
SEV_MODERATE == "moderate"
SEV_SEVERE == "severe"
SEV_CRITICAL == "critical"

CAT_RHYTHM == "rhythm"
CAT_CONDUCTION == "conduction"
CAT_ISCHEMIA == "ischemia"
CAT_HYPERTROPHY == "hypertrophy"
CAT_ARTIFACT == "artifact"

\* the members of FindingCategory; MORPHOLOGY is not one of them
FindingCategory ==
    {CAT_RHYTHM, CAT_CONDUCTION, CAT_ISCHEMIA, CAT_HYPERTROPHY, "electrolyte",
     "drug_effect", CAT_ARTIFACT}

RegularCvPct == 10
IrregularCvPct == 30
AdultRateLow == 60
AdultRateHigh == 100
InfantAge == 1
InfantRateLow == 100
InfantRateHigh == 160
ToddlerAge == 3
ToddlerRateLow == 90
ToddlerRateHigh == 150
ChildAge == 10
ChildRateLow == 70
ChildRateHigh == 120
RateSevereLow == 40
RateModerateLow == 50
RateSevereHigh == 150
RateModerateHigh == 120
PrShort == 120
PrLong == 200
PrSevere == 250
QrsWide == 120
QrsSevere == 140
QtcDescriptionLimit == 450
LowRAmplitude == 10
StElevationLimit == 20
StDepressionLimit == 10
SokolowLyonLimit == 350
SnrLimit == 10
DriftLimit == 30
ClippingLimit == 5
MaxAdditional == 5
MaxArrhythmiaRecs == 3
MaxQtNotes == 2

REC_URGENT == "URGENT: Immediate cardiology consultation required"
REC_DEFAULT ==
    <<"Continue routine cardiac monitoring",
      "Repeat ECG in 6-12 months or if symptoms develop">>
FOLLOW_IMMEDIATE == "Immediate follow-up required"
FOLLOW_WEEKS == "Follow-up within 1-2 weeks"
FOLLOW_ROUTINE == "Routine follow-up as scheduled"
PROGNOSIS_GUARDED == "Guarded - requires immediate intervention"
PROGNOSIS_FAIR == "Fair with appropriate treatment"
PROGNOSIS_GOOD == "Good with monitoring"
NORMAL_ECG == "Normal ECG"

Finding(category, name, severity, confidence) ==
    [category |-> category, name |-> name, severity |-> severity, confidence |-> confidence]

\* value.replace('_', ' ').title()
Title(t) ==
    CASE t = NORMAL -> "Normal"
      [] t = AFIB -> "Atrial Fibrillation"
      [] t = AFLUTTER -> "Atrial Flutter"
      [] t = VT -> "Ventricular Tachycardia"
      [] t = VFIB -> "Ventricular Fibrillation"
      [] t = PVC -> "Premature Ventricular Contraction"
      [] t = PAC -> "Premature Atrial Contraction"
      [] t = BRADYCARDIA -> "Bradycardia"
      [] t = TACHYCARDIA -> "Tachycardia"
      [] t = FIRST_DEGREE_BLOCK -> "First Degree Av Block"
      [] t = SECOND_DEGREE_BLOCK -> "Second Degree Av Block"
      [] t = THIRD_DEGREE_BLOCK -> "Third Degree Av Block"
      [] t = SINUS_ARRHYTHMIA -> "Sinus Arrhythmia"

MapArrhythmiaSeverity(t) ==
    IF t \in {VFIB, VT, THIRD_DEGREE_BLOCK} THEN SEV_CRITICAL
    ELSE IF t \in {AFIB, AFLUTTER} THEN SEV_SEVERE
    ELSE IF t \in {SECOND_DEGREE_BLOCK, BRADYCARDIA, TACHYCARDIA} THEN SEV_MODERATE
    ELSE IF t \in {FIRST_DEGREE_BLOCK, PVC} THEN SEV_MILD
    ELSE IF t = PAC THEN SEV_BENIGN
    ELSE SEV_MILD

\* `if x:` on an Optional number: None and 0 are falsy
Truthy(x) == x # <<>> /\ x[1] # 0

\* arrhythmia is <<>> (None) or <<report>>
AssessRhythm(intervals, arrhythmia) ==
    IF arrhythmia # <<>>
    THEN IF arrhythmia[1].primary_rhythm # NORMAL
         THEN <<Finding(CAT_RHYTHM, Title(arrhythmia[1].primary_rhythm),
                        MapArrhythmiaSeverity(arrhythmia[1].primary_rhythm), 85)>>
         ELSE <<>>
    ELSE IF intervals.rr_intervals # <<>>
         THEN IF CvLt(intervals.rr_intervals, RegularCvPct)
              THEN <<Finding(CAT_RHYTHM, "Regular Sinus Rhythm", SEV_NORMAL, 90)>>
              ELSE IF CvGt(intervals.rr_intervals, IrregularCvPct)
              THEN <<Finding(CAT_RHYTHM, "Irregular Rhythm", SEV_MODERATE, 80)>>
              ELSE <<>>
         ELSE <<>>

\* the normal range of _assess_heart_rate; `if patient_age:` is false for None and 0
NormalRange(patient_age) ==
    IF Truthy(patient_age)
    THEN IF patient_age[1] < InfantAge THEN <<InfantRateLow, InfantRateHigh>>
         ELSE IF patient_age[1] < ToddlerAge THEN <<ToddlerRateLow, ToddlerRateHigh>>
         ELSE IF patient_age[1] < ChildAge THEN <<ChildRateLow, ChildRateHigh>>
         ELSE <<AdultRateLow, AdultRateHigh>>
    ELSE <<AdultRateLow, AdultRateHigh>>

AssessHeartRate(intervals, patient_age) ==
    IF intervals.heart_rate = <<>> THEN <<>>
    ELSE LET hr == intervals.heart_rate[1]
             normal_range == NormalRange(patient_age)
         IN  IF hr < normal_range[1]
             THEN <<Finding(CAT_RHYTHM, "Bradycardia",
                            IF hr < RateSevereLow THEN SEV_SEVERE
                            ELSE IF hr < RateModerateLow THEN SEV_MODERATE ELSE SEV_MILD, 95)>>
             ELSE IF hr > normal_range[2]
             THEN <<Finding(CAT_RHYTHM, "Tachycardia",
                            IF hr > RateSevereHigh THEN SEV_SEVERE
                            ELSE IF hr > RateModerateHigh THEN SEV_MODERATE ELSE SEV_MILD, 95)>>
             ELSE <<>>

AssessIntervals(intervals, patient_gender) ==
    (IF Truthy(intervals.pr_interval)
     THEN IF intervals.pr_interval[1] < PrShort
          THEN <<Finding(CAT_CONDUCTION, "Short PR Interval", SEV_MILD, 85)>>
          ELSE IF intervals.pr_interval[1] > PrLong
          THEN <<Finding(CAT_CONDUCTION, "Prolonged PR Interval (First-Degree AV Block)",
                         IF intervals.pr_interval[1] < PrSevere THEN SEV_MODERATE
                         ELSE SEV_SEVERE, 90)>>
          ELSE <<>>
     ELSE <<>>)
    \o
    (IF Truthy(intervals.qrs_duration) /\ intervals.qrs_duration[1] > QrsWide
     THEN <<Finding(CAT_CONDUCTION, "Wide QRS Complex",
                    IF intervals.qrs_duration[1] < QrsSevere THEN SEV_MODERATE
                    ELSE SEV_SEVERE, 88)>>
     ELSE <<>>)

AssessQtIntervals(qt_analysis, patient_gender) ==
    (IF qt_analysis.risk_level = RISK_BORDERLINE
     THEN <<Finding(CAT_CONDUCTION, "Borderline QT Prolongation", SEV_MILD, 80)>>
     ELSE IF qt_analysis.risk_level = RISK_PROLONGED
     THEN <<Finding(CAT_CONDUCTION, "Prolonged QT Interval", SEV_SEVERE, 88)>>
     ELSE IF qt_analysis.risk_level = RISK_SEVERE
     THEN <<Finding(CAT_CONDUCTION, "Severely Prolonged QT Interval", SEV_CRITICAL, 92)>>
     ELSE <<>>)
    \o
    (IF IsAbnormal(qt_analysis.dispersion)
     THEN <<Finding(CAT_CONDUCTION, "Increased QT Dispersion", SEV_MODERATE, 75)>>
     ELSE <<>>)

\* signals is the dict as a sequence of [name, sig] in insertion order
LeadNames(signals) == [i \in 1..Len(signals) |-> signals[i].name]

HasLead(signals, name) == \E i \in 1..Len(signals) : signals[i].name = name

SignalOf(signals, name) == signals[CHOOSE i \in 1..Len(signals) : signals[i].name = name].sig

\* np.mean of the lead: <<>> is nan (empty array)
MeanOf(sig) == IF sig.len = 0 THEN <<>> ELSE <<sig.mean>>

\* comparisons with nan are false
Positive(x) == x # <<>> /\ x[1] > 0
Negative(x) == x # <<>> /\ x[1] < 0

AXIS_NORMAL == "Normal axis"
AXIS_LEFT == "Left axis deviation"
AXIS_RIGHT == "Right axis deviation"
AXIS_EXTREME == "Extreme axis deviation (northwest axis)"

\* _assess_axis: the axis (<<>> is None) and the findings
AssessAxis(signals) ==
    IF ~HasLead(signals, "I") \/ ~HasLead(signals, "aVF")
    THEN [axis |-> <<>>, findings |-> <<>>]
    ELSE LET i_amplitude == MeanOf(SignalOf(signals, "I"))
             avf_amplitude == MeanOf(SignalOf(signals, "aVF"))
         IN  IF Positive(i_amplitude) /\ Positive(avf_amplitude)
             THEN [axis |-> <<AXIS_NORMAL>>, findings |-> <<>>]
             ELSE IF Positive(i_amplitude) /\ Negative(avf_amplitude)
             THEN [axis |-> <<AXIS_LEFT>>,
                   findings |-> <<Finding(CAT_CONDUCTION, "Left Axis Deviation", SEV_MILD, 75)>>]
             ELSE IF Negative(i_amplitude) /\ Positive(avf_amplitude)
             THEN [axis |-> <<AXIS_RIGHT>>,
                   findings |-> <<Finding(CAT_CONDUCTION, "Right Axis Deviation",
                                          SEV_MODERATE, 75)>>]
             ELSE [axis |-> <<AXIS_EXTREME>>,
                   findings |-> <<Finding(CAT_CONDUCTION, "Extreme Axis Deviation",
                                          SEV_SEVERE, 70)>>]

\* _assess_morphology from lead i on: the exception it ends with, <<>> when it
\* returns.  np.max of an empty array raises ValueError; a low R wave reaches
\* FindingCategory.MORPHOLOGY, which the enum does not have.  It never returns
\* a finding.
RECURSIVE MorphologyRaises(_, _)
MorphologyRaises(signals, i) ==
    IF i > Len(signals) THEN <<>>
    ELSE IF signals[i].name \in {"V1", "V2", "V3"}
    THEN IF signals[i].sig.len = 0 THEN <<"ValueError">>
         ELSE IF signals[i].sig.max - signals[i].sig.median < LowRAmplitude
         THEN IF "morphology" \in FindingCategory
              THEN MorphologyRaises(signals, i + 1)
              ELSE <<"AttributeError">>
         ELSE MorphologyRaises(signals, i + 1)
    ELSE MorphologyRaises(signals, i + 1)

AssessMorphology(signals, sample_rate) ==
    [raises |-> MorphologyRaises(signals, 1), findings |-> <<>>]

StElevationIn(lead) ==
    CASE lead = "I" -> "ST Elevation in I"
      [] lead = "II" -> "ST Elevation in II"
      [] lead = "aVF" -> "ST Elevation in aVF"
      [] lead = "V1" -> "ST Elevation in V1"
      [] lead = "V2" -> "ST Elevation in V2"
      [] lead = "V5" -> "ST Elevation in V5"
      [] OTHER -> "ST Elevation in another lead"

StDepressionIn(lead) ==
    CASE lead = "I" -> "ST Depression in I"
      [] lead = "II" -> "ST Depression in II"
      [] lead = "aVF" -> "ST Depression in aVF"
      [] lead = "V1" -> "ST Depression in V1"
      [] lead = "V2" -> "ST Depression in V2"
      [] lead = "V5" -> "ST Depression in V5"
      [] OTHER -> "ST Depression in another lead"

\* the bound of a slice as Python resolves it: a negative bound counts from the end,
\* and the result is clamped to 0..len
SliceBound(len, k) ==
    IF k < 0 THEN (IF len + k < 0 THEN 0 ELSE len + k) ELSE (IF k > len THEN len ELSE k)

\* np.mean(signal[int(0.08 * sr):int(0.12 * sr)]) - np.median(signal); <<>> is nan,
\* the mean of an empty slice
StElevation(sig, sample_rate) ==
    IF SliceBound(sig.len, IntTrunc(8 * sample_rate, 100))
           >= SliceBound(sig.len, IntTrunc(12 * sample_rate, 100))
    THEN <<>>
    ELSE <<sig.st - sig.median>>

RECURSIVE IschemiaFrom(_, _, _)
IschemiaFrom(signals, sample_rate, i) ==
    IF i > Len(signals) THEN <<>>
    ELSE LET st_elevation == StElevation(signals[i].sig, sample_rate)
         IN  (IF st_elevation # <<>> /\ st_elevation[1] > StElevationLimit
              THEN <<Finding(CAT_ISCHEMIA, StElevationIn(signals[i].name), SEV_CRITICAL, 70)>>
              ELSE IF st_elevation # <<>> /\ st_elevation[1] < 0 - StDepressionLimit
              THEN <<Finding(CAT_ISCHEMIA, StDepressionIn(signals[i].name), SEV_SEVERE, 70)>>
              ELSE <<>>)
             \o IschemiaFrom(signals, sample_rate, i + 1)

AssessIschemia(signals, sample_rate) == IschemiaFrom(signals, sample_rate, 1)

\* np.min / np.max of an empty array raise ValueError
AssessHypertrophy(signals, sample_rate) ==
    IF HasLead(signals, "V1") /\ HasLead(signals, "V5")
    THEN LET v1 == SignalOf(signals, "V1")
             v5 == SignalOf(signals, "V5")
         IN  IF v1.len = 0 \/ v5.len = 0
             THEN [raises |-> <<"ValueError">>, findings |-> <<>>]
             ELSE [raises |-> <<>>,
                   findings |->
                       IF Abs(v1.min) + v5.max > SokolowLyonLimit
                       THEN <<Finding(CAT_HYPERTROPHY, "Left Ventricular Hypertrophy",
                                      SEV_MODERATE, 75)>>
                       ELSE <<>>]
    ELSE [raises |-> <<>>, findings |-> <<>>]

\* quality: snr in dB, baseline_drift and clipping_ratio in hundredths
AssessQualityIssues(quality) ==
    (IF quality.snr < SnrLimit
     THEN <<Finding(CAT_ARTIFACT, "Poor Signal Quality", SEV_MILD, 95)>> ELSE <<>>)
    \o (IF quality.baseline_drift > DriftLimit
        THEN <<Finding(CAT_ARTIFACT, "Baseline Wander", SEV_MILD, 90)>> ELSE <<>>)
    \o (IF quality.clipping_ratio > ClippingLimit
        THEN <<Finding(CAT_ARTIFACT, "Signal Clipping", SEV_MODERATE, 95)>> ELSE <<>>)

GenerateRhythmDescription(intervals, arrhythmia) ==
    IF arrhythmia # <<>> /\ arrhythmia[1].primary_rhythm # NORMAL
    THEN Title(arrhythmia[1].primary_rhythm)
    ELSE IF intervals.rr_intervals # <<>>
    THEN IF CvLt(intervals.rr_intervals, RegularCvPct) THEN "Regular sinus rhythm"
         ELSE "Irregularly irregular rhythm"
    ELSE "Rhythm assessment limited"

\* the text around the number, and the number
GenerateRateDescription(intervals, patient_age) ==
    IF intervals.heart_rate = <<>>
    THEN [text |-> "Heart rate could not be determined", hr |-> <<>>]
    ELSE [text |-> IF Truthy(patient_age) /\ patient_age[1] < ChildAge THEN "Heart rate (pediatric)"
                   ELSE IF intervals.heart_rate[1] < AdultRateLow THEN "Bradycardia at"
                   ELSE IF intervals.heart_rate[1] > AdultRateHigh THEN "Tachycardia at"
                   ELSE "Normal heart rate at",
          hr |-> intervals.heart_rate]

GenerateIntervalDescription(intervals) ==
    LET parts ==
            (IF Truthy(intervals.pr_interval)
             THEN <<[name |-> "PR", ms |-> intervals.pr_interval[1],
                     text |-> IF intervals.pr_interval[1] < PrShort
                                 \/ intervals.pr_interval[1] > PrLong
                              THEN "abnormal" ELSE "normal"]>>
             ELSE <<>>)
            \o (IF Truthy(intervals.qrs_duration)
                THEN <<[name |-> "QRS", ms |-> intervals.qrs_duration[1],
                        text |-> IF intervals.qrs_duration[1] > QrsWide
                                 THEN "wide" ELSE "normal"]>>
                ELSE <<>>)
            \o (IF Truthy(intervals.qtc_interval)
                THEN <<[name |-> "QTc", ms |-> intervals.qtc_interval[1],
                        text |-> IF intervals.qtc_interval[1] > QtcDescriptionLimit
                                 THEN "prolonged" ELSE "normal"]>>
                ELSE <<>>)
    IN  IF parts = <<>> THEN <<[name |-> "", ms |-> 0, text |-> "Intervals within normal limits"]>>
        ELSE parts

GenerateMorphologyNotes(signals) ==
    LET names == LeadNames(signals)
        v_leads == SelectSeq(names, LAMBDA k : k \in {"V1", "V2", "V3", "V4", "V5", "V6"})
        limb_leads == SelectSeq(names, LAMBDA k : k \in {"I", "II", "III", "aVR", "aVL", "aVF"})
    IN  (IF v_leads # <<>> THEN <<[text |-> "Precordial leads present", leads |-> v_leads]>>
         ELSE <<>>)
        \o (IF limb_leads # <<>> THEN <<[text |-> "Limb leads present", leads |-> limb_leads]>>
            ELSE <<>>)

\* the dict as the sequence of its entries in insertion order
CompareWithNormal(intervals, qt_analysis, patient_age, patient_gender) ==
    (IF Truthy(intervals.heart_rate)
     THEN <<[key |-> "Heart Rate",
             text |-> IF intervals.heart_rate[1] < AdultRateLow THEN "below normal"
                      ELSE IF intervals.heart_rate[1] > AdultRateHigh THEN "above normal"
                      ELSE "normal",
             range |-> IF Truthy(patient_age) /\ patient_age[1] < ChildAge
                       THEN "70-120 BPM (pediatric)" ELSE "60-100 BPM"]>>
     ELSE <<>>)
    \o (IF Truthy(intervals.pr_interval)
        THEN <<[key |-> "PR Interval",
                text |-> IF intervals.pr_interval[1] < PrShort THEN "short"
                         ELSE IF intervals.pr_interval[1] > PrLong THEN "long" ELSE "normal",
                range |-> "120-200 ms"]>>
        ELSE <<>>)
    \o (IF Truthy(intervals.qrs_duration)
        THEN <<[key |-> "QRS Duration",
                text |-> IF intervals.qrs_duration[1] > QrsWide THEN "wide" ELSE "normal",
                range |-> "<120 ms"]>>
        ELSE <<>>)
    \o (IF qt_analysis # <<>>
        THEN <<[key |-> "QTc",
                text |-> IF IsProlonged(qt_analysis[1]) THEN "prolonged" ELSE "normal",
                range |-> IF patient_gender # <<>> /\ patient_gender[1] # ""
                          THEN patient_gender[1] ELSE ""]>>
        ELSE <<>>)

\* [f for f in findings if f.severity == sev]
OfSeverity(findings, sev) == SelectSeq(findings, LAMBDA f : f.severity = sev)

\* the for loop over the severities of _generate_conclusion, from index i on
RECURSIVE WalkSeverities(_, _, _)
WalkSeverities(findings, order, i) ==
    IF i > Len(order)
    THEN [primary_diagnosis |-> NORMAL_ECG, severity |-> SEV_NORMAL, urgent |-> FALSE]
    ELSE IF OfSeverity(findings, order[i]) # <<>>
    THEN [primary_diagnosis |-> OfSeverity(findings, order[i])[1].name,
          severity |-> order[i], urgent |-> FALSE]
    ELSE WalkSeverities(findings, order, i + 1)

\* the choice with the first finding of the list that is Critical or Severe
PrimaryOfFirstUrgent(findings) ==
    LET u == SelectSeq(findings, LAMBDA f : f.severity \in {SEV_CRITICAL, SEV_SEVERE})
    IN  IF u # <<>>
        THEN [primary_diagnosis |-> u[1].name, severity |-> u[1].severity, urgent |-> TRUE]
        ELSE WalkSeverities(findings,
                            <<SEV_CRITICAL, SEV_SEVERE, SEV_MODERATE, SEV_MILD, SEV_BENIGN>>, 1)

\* the choice with the first finding of the list whatever its severity
PrimaryOfFirstFinding(findings) ==
    LET critical_findings == OfSeverity(findings, SEV_CRITICAL)
        severe_findings == OfSeverity(findings, SEV_SEVERE)
    IN  IF critical_findings # <<>>
        THEN [primary_diagnosis |-> critical_findings[1].name,
              severity |-> SEV_CRITICAL, urgent |-> TRUE]
        ELSE IF severe_findings # <<>>
        THEN [primary_diagnosis |-> severe_findings[1].name,
              severity |-> SEV_SEVERE, urgent |-> TRUE]
        ELSE IF findings # <<>>
        THEN [primary_diagnosis |-> findings[1].name,
              severity |-> findings[1].severity, urgent |-> FALSE]
        ELSE [primary_diagnosis |-> NORMAL_ECG, severity |-> SEV_NORMAL, urgent |-> FALSE]

\* primary diagnosis, severity and urgency of _generate_conclusion
\* mutant of PrimaryOf: anything below severe is concluded to be a normal ECG
PrimaryOfUrgentOnly(findings) ==
    LET u == SelectSeq(findings, LAMBDA f : f.severity \in {SEV_CRITICAL, SEV_SEVERE})
        critical_findings == OfSeverity(findings, SEV_CRITICAL)
    IN  IF critical_findings # <<>>
        THEN [primary_diagnosis |-> critical_findings[1].name,
              severity |-> SEV_CRITICAL, urgent |-> TRUE]
        ELSE IF u # <<>>
        THEN [primary_diagnosis |-> u[1].name, severity |-> SEV_SEVERE, urgent |-> TRUE]
        ELSE [primary_diagnosis |-> NORMAL_ECG, severity |-> SEV_NORMAL, urgent |-> FALSE]

PrimaryOf(findings) ==
    LET critical_findings == OfSeverity(findings, SEV_CRITICAL)
        severe_findings == OfSeverity(findings, SEV_SEVERE)
    IN  IF critical_findings # <<>>
        THEN [primary_diagnosis |-> critical_findings[1].name,
              severity |-> SEV_CRITICAL, urgent |-> TRUE]
        ELSE IF severe_findings # <<>>
        THEN [primary_diagnosis |-> severe_findings[1].name,
              severity |-> SEV_SEVERE, urgent |-> TRUE]
        ELSE IF findings # <<>>
        THEN WalkSeverities(findings,
                            <<SEV_CRITICAL, SEV_SEVERE, SEV_MODERATE, SEV_MILD, SEV_BENIGN>>, 1)
        ELSE [primary_diagnosis |-> NORMAL_ECG, severity |-> SEV_NORMAL, urgent |-> FALSE]

Names(findings) == [i \in 1..Len(findings) |-> findings[i].name]

\* the names of all findings but the first one named as the primary diagnosis
AdditionalByPosition(findings, primary_diagnosis) ==
    LET at == {i \in 1..Len(findings) : findings[i].name = primary_diagnosis}
        first == IF at = {} THEN 0 ELSE CHOOSE i \in at : \A j \in at : i <= j
        idx == SelectSeq([i \in 1..Len(findings) |-> i], LAMBDA i : i # first)
    IN  Take([k \in 1..Len(idx) |-> findings[idx[k]].name], MaxAdditional)

\* [f.name for f in findings if f.name != primary_diagnosis][:5]
AdditionalFindings(findings, primary_diagnosis) ==
    Take(SelectSeq(Names(findings), LAMBDA n : n # primary_diagnosis), MaxAdditional)

\* the recommendations with the default texts appended in every case
RecommendationsWithDefault(urgent, arrhythmia, qt_analysis) ==
    (IF urgent THEN <<REC_URGENT>> ELSE <<>>)
    \o (IF arrhythmia # <<>> THEN Take(arrhythmia[1].recommendations, MaxArrhythmiaRecs)
        ELSE <<>>)
    \o (IF qt_analysis # <<>> THEN Take(qt_analysis[1].clinical_notes, MaxQtNotes) ELSE <<>>)
    \o REC_DEFAULT

Recommendations(urgent, arrhythmia, qt_analysis) ==
    LET recommendations ==
            (IF urgent THEN <<REC_URGENT>> ELSE <<>>)
            \o (IF arrhythmia # <<>> /\ arrhythmia[1].recommendations # <<>>
                THEN Take(arrhythmia[1].recommendations, MaxArrhythmiaRecs) ELSE <<>>)
            \o (IF qt_analysis # <<>> /\ qt_analysis[1].clinical_notes # <<>>
                THEN Take(qt_analysis[1].clinical_notes, MaxQtNotes) ELSE <<>>)
    IN  IF recommendations = <<>> THEN REC_DEFAULT ELSE recommendations

FollowUp(urgent, severity) ==
    IF urgent THEN FOLLOW_IMMEDIATE
    ELSE IF severity \in {SEV_SEVERE, SEV_MODERATE} THEN FOLLOW_WEEKS
    ELSE FOLLOW_ROUTINE

\* the prognosis keyed like the follow-up
PrognosisLikeFollowUp(severity) ==
    IF severity \in {SEV_CRITICAL, SEV_SEVERE} THEN PROGNOSIS_GUARDED
    ELSE IF severity = SEV_MODERATE THEN PROGNOSIS_FAIR
    ELSE PROGNOSIS_GOOD

Prognosis(severity) ==
    IF severity = SEV_CRITICAL THEN PROGNOSIS_GUARDED
    ELSE IF severity = SEV_SEVERE THEN PROGNOSIS_FAIR
    ELSE PROGNOSIS_GOOD

GenerateConclusion(findings, arrhythmia, qt_analysis) ==
    LET p == PrimaryOf(findings)
    IN  [primary_diagnosis |-> p.primary_diagnosis,
         additional_findings |-> AdditionalFindings(findings, p.primary_diagnosis),
         severity |-> p.severity,
         urgent_action_required |-> p.urgent,
         recommendations |-> Recommendations(p.urgent, arrhythmia, qt_analysis),
         follow_up |-> FollowUp(p.urgent, p.severity),
         prognosis |-> Prognosis(p.severity)]

\* interpret(): [raises |-> <<exception>>] or the AutomatedFindings
Interpretation(signals, sample_rate, intervals, quality, arrhythmia, qt_analysis, patient_age, patient_gender) ==
    LET axis == AssessAxis(signals)
        morphology == AssessMorphology(signals, sample_rate)
        hypertrophy == AssessHypertrophy(signals, sample_rate)
        findings ==
            AssessRhythm(intervals, arrhythmia)
            \o AssessHeartRate(intervals, patient_age)
            \o AssessIntervals(intervals, patient_gender)
            \o (IF qt_analysis # <<>> THEN AssessQtIntervals(qt_analysis[1], patient_gender)
                ELSE <<>>)
            \o axis.findings
            \o morphology.findings
            \o AssessIschemia(signals, sample_rate)
            \o hypertrophy.findings
            \o AssessQualityIssues(quality)
    IN  IF morphology.raises # <<>> THEN [raises |-> morphology.raises]
        ELSE IF hypertrophy.raises # <<>> THEN [raises |-> hypertrophy.raises]
        ELSE [raises |-> <<>>,
              findings |-> findings,
              conclusion |-> GenerateConclusion(findings, arrhythmia, qt_analysis),
              axis |-> axis.axis,
              rhythm_description |-> GenerateRhythmDescription(intervals, arrhythmia),
              rate_description |-> GenerateRateDescription(intervals, patient_age),
              interval_description |-> GenerateIntervalDescription(intervals),
              morphology_notes |-> GenerateMorphologyNotes(signals),
              comparison_with_normal |->
                  CompareWithNormal(intervals, qt_analysis, patient_age, patient_gender)]

(***************************************************************************)
(* Calls of ClinicalInterpreter.interpret.  The arrhythmia report and the  *)
(* QT analysis passed are None or what the detector and the analyzer       *)
(* return.                                                                 *)
(***************************************************************************)
ISignal(len, mean, median, max, min, st) ==
    [len |-> len, mean |-> mean, median |-> median, max |-> max, min |-> min, st |-> st]

Lead(name, sig) == [name |-> name, sig |-> sig]

Plain == ISignal(5000, 5, 0, 100, -50, 0)
Inverted == ISignal(5000, -5, 0, 50, -100, 0)
Elevated == ISignal(5000, 5, 0, 100, -50, 21)
Depressed == ISignal(5000, 5, 0, 100, -50, -11)

\* the leads of the conclusion inputs: none abnormal, one Critical, two Severe,
\* a Severe before a Critical
ConclusionSignals ==
    {<<Lead("II", Plain)>>,
     <<Lead("II", Elevated)>>,
     <<Lead("I", Inverted), Lead("aVF", Inverted), Lead("II", Depressed)>>,
     <<Lead("II", Depressed), Lead("V2", Elevated)>>}

\* the leads of the pass inputs, with the values at and next to the thresholds
PassSignals ==
    ConclusionSignals \cup
    {<<>>,
     <<Lead("II", ISignal(5000, 5, 0, 100, -50, 20))>>,
     <<Lead("II", ISignal(5000, 5, 0, 100, -50, -10))>>,
     <<Lead("II", ISignal(40, 5, 0, 100, -50, 50))>>,
     <<Lead("II", ISignal(0, 0, 0, 0, 0, 0))>>,
     <<Lead("I", Inverted)>>,
     <<Lead("I", Plain), Lead("aVF", Plain)>>,
     <<Lead("I", Plain), Lead("aVF", Inverted)>>,
     <<Lead("aVF", Plain), Lead("I", Inverted)>>,
     <<Lead("I", ISignal(5000, 0, 0, 50, -50, 0)), Lead("aVF", Plain)>>,
     <<Lead("I", ISignal(0, 0, 0, 0, 0, 0)), Lead("aVF", Plain)>>,
     <<Lead("II", Plain), Lead("V1", ISignal(5000, 1, 0, 9, -9, 0))>>,
     <<Lead("V1", ISignal(5000, 1, 0, 10, -9, 0)), Lead("II", Elevated)>>,
     <<Lead("V3", ISignal(0, 0, 0, 0, 0, 0)), Lead("V2", ISignal(5000, 1, 0, 9, -9, 0))>>,
     <<Lead("V1", ISignal(5000, -5, 0, 50, -151, 0)), Lead("V5", ISignal(5000, 5, 0, 200, -50, 0))>>,
     <<Lead("V1", ISignal(5000, -5, 0, 50, -150, 0)), Lead("V5", ISignal(5000, 5, 0, 200, -50, 0))>>,
     <<Lead("V1", Plain), Lead("V5", ISignal(0, 0, 0, 0, 0, 0))>>}

IntervalsOf(hr, pr, qrs, rr) ==
    [heart_rate |-> hr, pr_interval |-> pr, qrs_duration |-> qrs,
     qt_interval |-> <<400>>, qtc_interval |-> <<420>>, rr_intervals |-> rr]

QualityOf(snr, drift, clipping) ==
    [snr |-> snr, baseline_drift |-> drift, clipping_ratio |-> clipping]

\* RR intervals (samples) and QRS widths of the leads given to the detector
DetectorCases ==
    {<<Repeat(<<400>>, 4), <<40>>, 10, 50>>,
     <<Repeat(<<750>>, 4), <<40>>, 10, 50>>,
     <<Repeat(<<250>>, 4), <<40>>, 10, 50>>,
     <<Repeat(<<250>>, 4), <<70>>, 10, 50>>,
     <<Repeat(<<200, 200, 150, 250>>, 11), <<70>>, 10, 50>>,
     <<<<150, 900, 150, 150>>, <<40>>, 10, 90>>,
     <<<<400, 400, 300, 420, 400, 400>>, <<40>>, 10, 50>>,
     <<Repeat(<<400>>, 4), <<40>>, 30, 50>>}

ArrhythmiaReports ==
    {ReportFor(Signal(PeaksFrom(100, k[1]), k[3], k[2], k[4]), PeaksFrom(100, k[1]),
               DefaultSampleRate) : k \in DetectorCases}

\* the QT analysis of a male with one lead of two beats, or none, or with two
\* leads whose QT differ by 102 ms
QtAnalyses ==
    {AnalysisFor(NewAnalyzer(DefaultSampleRate), <<Lead("II", QtSignal(20000, <<t>>, FALSE))>>,
                 [l \in {"II"} |-> PeaksFrom(100, <<500, 500>>)], <<"M">>) :
        t \in {200, 230, 240, 260}}
    \cup
    {AnalysisFor(NewAnalyzer(DefaultSampleRate), <<Lead("II", QtSignal(20000, <<200>>, FALSE))>>,
                 [l \in {"II"} |-> <<100>>], <<"M">>),
     AnalysisFor(NewAnalyzer(DefaultSampleRate),
                 <<Lead("II", QtSignal(20000, <<150>>, FALSE)),
                   Lead("V1", QtSignal(20000, <<201>>, FALSE))>>,
                 [l \in {"II", "V1"} |-> PeaksFrom(100, <<500, 500>>)], <<"M">>)}

Optional(S) == {<<>>} \cup {<<x>> : x \in S}

ConclusionInputs ==
    {[op |-> "interpret", signals |-> sg, sample_rate |-> DefaultSampleRate,
      intervals |-> IntervalsOf(hr, <<pr>>, <<qrs>>, Repeat(<<800>>, 10)),
      quality |-> q, arrhythmia |-> a, qt_analysis |-> qt,
      patient_age |-> <<>>, patient_gender |-> <<"M">>] :
        sg \in ConclusionSignals, hr \in Optional({35, 45, 75}), pr \in {160, 220, 260},
        qrs \in {90, 150}, q \in {QualityOf(25, 10, 0), QualityOf(8, 40, 8)},
        a \in Optional(ArrhythmiaReports), qt \in Optional(QtAnalyses)}

RateInputs ==
    {[op |-> "interpret", signals |-> <<Lead("II", Plain)>>, sample_rate |-> DefaultSampleRate,
      intervals |-> IntervalsOf(hr, <<>>, <<>>, rr),
      quality |-> q, arrhythmia |-> <<>>, qt_analysis |-> <<>>,
      patient_age |-> age, patient_gender |-> <<>>] :
        hr \in Optional({0, 39, 40, 49, 50, 59, 60, 75, 95, 100, 101, 120, 121, 150, 151}),
        rr \in {<<>>, Repeat(<<800>>, 10), <<800, 1000>>, <<720, 880>>, <<600, 1200>>,
                <<700, 1300>>, <<800, 800, 800, 1700>>},
        q \in {QualityOf(25, 10, 0), QualityOf(10, 30, 5), QualityOf(9, 31, 6)},
        age \in Optional({0, 1, 2, 3, 5, 9, 10, 30})}

PassInputs ==
    {[op |-> "interpret", signals |-> sg, sample_rate |-> DefaultSampleRate,
      intervals |-> IntervalsOf(<<>>, pr, qrs, <<>>),
      quality |-> QualityOf(25, 10, 0), arrhythmia |-> <<>>, qt_analysis |-> <<>>,
      patient_age |-> <<>>, patient_gender |-> g] :
        sg \in PassSignals, pr \in Optional({0, 119, 120, 200, 201, 249, 250}),
        qrs \in Optional({120, 121, 139, 140}), g \in {<<>>, <<"F">>}}

InterpretInputs == ConclusionInputs \cup RateInputs \cup PassInputs

InitInterpret ==
    /\ detector = NewDetector(DefaultSampleRate)
    /\ analyzer = NewAnalyzer(DefaultSampleRate)
    /\ pc = "call"
    /\ args \in InterpretInputs
    /\ ret = NoResult

Interpret ==
    /\ pc = "call"
    /\ args.op = "interpret"
    /\ LET r == Interpretation(args.signals, args.sample_rate, args.intervals, args.quality,
                               args.arrhythmia, args.qt_analysis, args.patient_age,
                               args.patient_gender)
       IN  IF r.raises # <<>>
           THEN pc' = "raised" /\ ret' = [error |-> r.raises[1]]
           ELSE pc' = "done" /\ ret' = [f \in DOMAIN r \ {"raises"} |-> r[f]]
    /\ UNCHANGED <<detector, analyzer, args>>

NextInterpret == Interpret

SpecInterpret == InitInterpret /\ [][NextInterpret]_vars

(***************************************************************************)
(* The entry points that take a sample_rate: the two constructors and      *)
(* interpret(), called with positive, zero and negative rates.  Here the   *)
(* construction is the call; detector and analyzer hold no instance until  *)
(* their constructor has returned.                                         *)
(***************************************************************************)
\* sample rates in Hz; 0.3, 2.0, 0.08 and 0.12 times each is exact in floating point
SampleRates == {-500, -250, -1, 0, 1, 250, 500, 1000}

ConstructorInputs ==
    {[op |-> c, sample_rate |-> sr] :
        c \in {"ArrhythmiaDetector", "QTAnalyzer"}, sr \in SampleRates}

ConfigInterpretInputs ==
    {[op |-> "interpret", signals |-> sg, sample_rate |-> sr,
      intervals |-> IntervalsOf(<<75>>, <<160>>, <<90>>, Repeat(<<800>>, 10)),
      quality |-> QualityOf(25, 10, 0), arrhythmia |-> <<>>, qt_analysis |-> <<>>,
      patient_age |-> <<>>, patient_gender |-> <<>>] :
        sg \in PassSignals, sr \in SampleRates}

InitConfig ==
    /\ detector = NoResult
    /\ analyzer = NoResult
    /\ pc = "call"
    /\ args \in ConstructorInputs \cup ConfigInterpretInputs
    /\ ret = NoResult

\* ArrhythmiaDetector(sample_rate): three assignments, no check of the rate
ConstructDetector ==
    /\ pc = "call"
    /\ args.op = "ArrhythmiaDetector"
    /\ detector' = NewDetector(args.sample_rate)
    /\ pc' = "done"
    /\ ret' = detector'
    /\ UNCHANGED <<analyzer, args>>

\* QTAnalyzer(sample_rate): one assignment, no check of the rate
ConstructAnalyzer ==
    /\ pc = "call"
    /\ args.op = "QTAnalyzer"
    /\ analyzer' = NewAnalyzer(args.sample_rate)
    /\ pc' = "done"
    /\ ret' = analyzer'
    /\ UNCHANGED <<detector, args>>

NextConfig == ConstructDetector \/ ConstructAnalyzer \/ Interpret

SpecConfig == InitConfig /\ [][NextConfig]_vars

(***************************************************************************)
(* Several callers on several instances.  A call takes two steps, entering *)
(* and returning, and the steps of different calls interleave in any       *)
(* order.  Here detector and analyzer map an instance number to the        *)
(* instance, and pc, args and ret map a caller to its call.                *)
(***************************************************************************)
MaxCalls == 2

Calls == 1..MaxCalls

Instances == {1, 2}

\* the sample rates the instances were constructed with
DetectorRates == <<500, 250>>
AnalyzerRates == <<500, 125>>

InterleavedInputs ==
    {[op |-> "detect", instance |-> i,
      signals |-> sg,
      r_peaks |-> <<>>] :
        i \in Instances,
        sg \in {<<>>,
                <<[name |-> "II", sig |-> Signal(PeaksFrom(100, Repeat(<<250>>, 4)), 10, <<70>>, 50)]>>,
                <<[name |-> "II", sig |-> Signal(PeaksFrom(100, <<300, 900>>), 10, <<40>>, 50)]>>}}
    \cup
    {[op |-> "analyze", instance |-> i,
      signals |-> <<[name |-> "II", sig |-> QtSignal(20000, <<200>>, FALSE)]>>,
      r_peaks |-> given,
      gender |-> <<"M">>] :
        i \in Instances,
        given \in {<<>>,
                   <<[l \in {"II"} |-> <<100>>]>>,
                   <<[l \in {"II"} |-> PeaksFrom(100, <<500, 500>>)]>>}}

InitInterleaved ==
    /\ detector = [i \in Instances |-> NewDetector(DetectorRates[i])]
    /\ analyzer = [i \in Instances |-> NewAnalyzer(AnalyzerRates[i])]
    /\ pc = [c \in Calls |-> "call"]
    /\ args \in [Calls -> InterleavedInputs]
    /\ ret = [c \in Calls |-> NoResult]

\* mutant of DetectorAfterDetect: the call leaves the instance on the default rate
DetectorAfterDetectReset(d) == NewDetector(DefaultSampleRate)

\* the instance after detect(): no statement of detect() or of its passes assigns
\* an attribute of self
DetectorAfterDetect(d) == d

\* the instance after analyze(): likewise
AnalyzerAfterAnalyze(a) == a

\* detect() up to _select_primary_lead
EnterDetect ==
    \E c \in Calls :
        /\ pc[c] = "call"
        /\ args[c].op = "detect"
        /\ IF args[c].signals = <<>>
           THEN /\ pc' = [pc EXCEPT ![c] = "raised"]
                /\ ret' = [ret EXCEPT ![c] = [error |-> "StopIteration"]]
           ELSE /\ pc' = [pc EXCEPT ![c] = "running"]
                /\ ret' = ret
        /\ UNCHANGED <<detector, analyzer, args>>

\* the passes and the report of detect(), read from the instance as it is now
ReturnDetect ==
    \E c \in Calls :
        /\ pc[c] = "running"
        /\ args[c].op = "detect"
        /\ pc' = [pc EXCEPT ![c] = "done"]
        /\ ret' = [ret EXCEPT ![c] = DetectReport(detector[args[c].instance],
                                                  args[c].signals, args[c].r_peaks)]
        /\ detector' = [detector EXCEPT ![args[c].instance] =
                           DetectorAfterDetect(detector[args[c].instance])]
        /\ UNCHANGED <<analyzer, args>>

\* analyze() up to its loop over the leads
EnterAnalyze ==
    \E c \in Calls :
        /\ pc[c] = "call"
        /\ args[c].op = "analyze"
        /\ pc' = [pc EXCEPT ![c] = "running"]
        /\ UNCHANGED <<detector, analyzer, args, ret>>

\* the loop and the report of analyze(), read from the instance as it is now
ReturnAnalyze ==
    \E c \in Calls :
        /\ pc[c] = "running"
        /\ args[c].op = "analyze"
        /\ IF args[c].signals # <<>> /\ args[c].r_peaks = <<>>
           THEN /\ pc' = [pc EXCEPT ![c] = "raised"]
                /\ ret' = [ret EXCEPT ![c] = [error |-> "TypeError"]]
           ELSE /\ pc' = [pc EXCEPT ![c] = "done"]
                /\ ret' = [ret EXCEPT ![c] =
                              AnalysisFor(analyzer[args[c].instance], args[c].signals,
                                          args[c].r_peaks[1], args[c].gender)]
        /\ analyzer' = [analyzer EXCEPT ![args[c].instance] =
                           AnalyzerAfterAnalyze(analyzer[args[c].instance])]
        /\ UNCHANGED <<detector, args>>

NextInterleaved == EnterDetect \/ ReturnDetect \/ EnterAnalyze \/ ReturnAnalyze

SpecInterleaved == InitInterleaved /\ [][NextInterleaved]_vars

(***************************************************************************)
(* Claims about the arrhythmia detector.                                   *)
(***************************************************************************)
HasConfident(detections, t) ==
    \E i \in 1..Len(detections) : detections[i].type = t /\ detections[i].confidence > 70

Occurrences(detections, t) ==
    Len(SelectSeq(detections, LAMBDA d : d.type = t))

\* C6: _determine_primary_rhythm returns the first type of the priority order VFib, VT,
\* AFib, AFlutter, third-degree block that has a detection of confidence > 0.7, wherever
\* that detection sits in the list; with no such detection it returns a most frequently
\* detected type, and Normal for the empty list.
C6_PrimaryRhythm ==
    pc = "done" =>
        LET dets == args.detections
            r == ret.primary_rhythm
            order == <<VFIB, VT, AFIB, AFLUTTER, THIRD_DEGREE_BLOCK>>
        IN  /\ \A p \in 1..5 :
                (/\ HasConfident(dets, order[p])
                 /\ \A q \in 1..(p - 1) : ~HasConfident(dets, order[q])) => r = order[p]
            /\ (\A p \in 1..5 : ~HasConfident(dets, order[p])) =>
                IF dets = <<>> THEN r = NORMAL
                ELSE /\ Occurrences(dets, r) > 0
                     /\ \A t \in ArrhythmiaType : Occurrences(dets, r) >= Occurrences(dets, t)

\* a confident VFib detection at the end of a list that starts with a confident flutter
\* detection and holds more PVCs than anything else: VFib is returned
C6_Witness ==
    /\ pc = "done"
    /\ Len(args.detections) = 4
    /\ args.detections[1].type = AFLUTTER
    /\ args.detections[2].type = PVC
    /\ args.detections[3].type = PVC
    /\ args.detections[4].type = VFIB
    /\ ret.primary_rhythm = VFIB

\* C7: a report of detect() with no detection has primary rhythm Normal, no critical
\* finding and the single routine-monitoring recommendation; critical_findings is
\* non-empty exactly when the detections hold a VFib, a severe VT, a third-degree block
\* or a severe Bradycardia.
C7_CriticalFindings ==
    pc = "done" =>
        /\ ret.detections = <<>> =>
              /\ ret.primary_rhythm = NORMAL
              /\ ret.critical_findings = <<>>
              /\ ret.recommendations = <<"Continue routine cardiac monitoring">>
        /\ ret.critical_findings # <<>> <=>
              \E i \in 1..Len(ret.detections) :
                  LET d == ret.detections[i]
                  IN  \/ d.type = VFIB
                      \/ d.type = VT /\ d.severity = "severe"
                      \/ d.type = THIRD_DEGREE_BLOCK
                      \/ d.type = BRADYCARDIA /\ d.severity = "severe"

\* a report with a moderate VT and nothing critical
C7_Witness ==
    /\ pc = "done"
    /\ \E i \in 1..Len(ret.detections) :
          ret.detections[i].type = VT /\ ret.detections[i].severity = "moderate"
    /\ ret.critical_findings = <<>>

\* C8: the rate pass emits at most one detection: none for 60 <= HR <= 100, Tachycardia
\* mild for 100 < HR <= 120, moderate for 120 < HR <= 150, severe above 150,
\* Bradycardia mild for 50 <= HR < 60, moderate for 40 <= HR < 50, severe below 40,
\* where HR = 60 * sample_rate / mean(RR) = hn / hd.
C8_RateBoundaries ==
    pc = "done" =>
        LET rr == AnalysedRR
            hn == 60 * detector.sample_rate * Len(rr)
            hd == Sum(rr)
            rate == SelectSeq(ret.detections,
                              LAMBDA d : d.type \in {BRADYCARDIA, TACHYCARDIA})
            is(t, sev) == Len(rate) = 1 /\ rate[1].type = t /\ rate[1].severity = sev
        IN  /\ Len(rate) <= 1
            /\ Len(rr) = 0 => rate = <<>>
            /\ Len(rr) > 0 =>
                  /\ (60 * hd <= hn /\ hn <= 100 * hd) => rate = <<>>
                  /\ (100 * hd < hn /\ hn <= 120 * hd) => is(TACHYCARDIA, "mild")
                  /\ (120 * hd < hn /\ hn <= 150 * hd) => is(TACHYCARDIA, "moderate")
                  /\ 150 * hd < hn => is(TACHYCARDIA, "severe")
                  /\ (50 * hd <= hn /\ hn < 60 * hd) => is(BRADYCARDIA, "mild")
                  /\ (40 * hd <= hn /\ hn < 50 * hd) => is(BRADYCARDIA, "moderate")
                  /\ hn < 40 * hd => is(BRADYCARDIA, "severe")

\* unequal intervals whose mean gives exactly 150 BPM: a moderate Tachycardia
C8_Witness ==
    /\ pc = "done"
    /\ Len(AnalysedRR) > 1
    /\ AnalysedRR[1] # AnalysedRR[2]
    /\ 60 * detector.sample_rate * Len(AnalysedRR) = 150 * Sum(AnalysedRR)
    /\ \E i \in 1..Len(ret.detections) :
          ret.detections[i].type = TACHYCARDIA /\ ret.detections[i].severity = "moderate"

(***************************************************************************)
(* Claims about the QT analyzer.                                           *)
(***************************************************************************)
\* the class of a QTc against a normal maximum and two further thresholds
RiskClass(qtc, normal_max, borderline, prolonged) ==
    IF ~RatGtInt(qtc, normal_max) THEN RISK_NORMAL
    ELSE IF ~RatGtInt(qtc, borderline) THEN RISK_BORDERLINE
    ELSE IF ~RatGtInt(qtc, prolonged) THEN RISK_PROLONGED
    ELSE RISK_SEVERE

IsMale(g) == g \in {<<"M">>, <<"m">>}
IsFemale(g) == g \in {<<"F">>, <<"f">>}

RiskAssessed == pc = "done" /\ args.op = "assess_risk"

\* C9 as stated: _assess_risk classifies against N = 450 (male), 470 (female),
\* 460 (unknown or absent gender), with borderline threshold N + 10 and prolonged
\* threshold N + 30 for each of the three classes.
C9_UniformOffsets ==
    RiskAssessed =>
        LET n == IF IsMale(args.gender) THEN 450
                 ELSE IF IsFemale(args.gender) THEN 470 ELSE 460
        IN  ret.risk_level = RiskClass(args.qtc, n, n + 10, n + 30)

\* C9 amended: _assess_risk classifies against 450 / 460 / 480 for a male,
\* 470 / 480 / 500 for a female and 460 / 470 / 500 for an unknown or absent
\* gender: QTc <= first is normal, first < QTc <= second is borderline,
\* second < QTc <= third is prolonged, QTc > third is severely prolonged.
C9_RiskThresholds ==
    RiskAssessed =>
        ret.risk_level =
            IF IsMale(args.gender) THEN RiskClass(args.qtc, 450, 460, 480)
            ELSE IF IsFemale(args.gender) THEN RiskClass(args.qtc, 470, 480, 500)
            ELSE RiskClass(args.qtc, 460, 470, 500)

\* an absent gender and a QTc of 495 ms, assessed as prolonged
C9_Witness ==
    /\ RiskAssessed
    /\ args.gender = <<>>
    /\ args.qtc = Rat(495, 1)
    /\ ret.risk_level = RISK_PROLONGED

Analysed == pc = "done" /\ args.op = "analyze"

\* C10: in every QTAnalysis returned by analyze(), drug_interactions is the fixed
\* reference list when risk_level is above normal and empty otherwise,
\* is_prolonged holds exactly for the prolonged and severely prolonged levels, and
\* a mean QTc of 520 ms of a male is severely prolonged with a non-empty list.
C10_DrugInteractions ==
    Analysed =>
        /\ ret.drug_interactions = (IF ret.risk_level = RISK_NORMAL THEN <<>> ELSE DRUGS)
        /\ (ret.drug_interactions # <<>>) <=> (ret.risk_level # RISK_NORMAL)
        /\ IsProlonged(ret) <=> ret.risk_level \in {RISK_PROLONGED, RISK_SEVERE}
        /\ (ret.measurements # <<>> /\ ret.mean_qtc = Rat(520, 1) /\ IsMale(args.gender))
              => ret.risk_level = RISK_SEVERE /\ ret.drug_interactions # <<>>

\* a male whose measured beats have a mean QTc of 520 ms
C10_Witness ==
    /\ Analysed
    /\ args.gender = <<"M">>
    /\ ret.measurements # <<>>
    /\ ret.mean_qtc = Rat(520, 1)
    /\ ret.risk_level = RISK_SEVERE
    /\ Len(ret.drug_interactions) = 6
    /\ IsProlonged(ret)

(***************************************************************************)
(* Claims about the conclusion of the clinical interpreter.                *)
(***************************************************************************)
Interpreted == pc = "done" /\ args.op = "interpret"

\* the positions of the findings of a severity, and the first of a non-empty set
PositionsOf(findings, sev) == {i \in 1..Len(findings) : findings[i].severity = sev}
FirstOf(S) == CHOOSE i \in S : \A j \in S : i <= j

\* C1: when a finding is Critical, primary_diagnosis is the name of the first Critical
\* finding, the severity is Critical and urgent_action_required is true, however many
\* Severe findings precede it; otherwise, when a finding is Severe, the same holds with
\* the first Severe finding and severity Severe.
C1_CriticalThenSevere ==
    Interpreted =>
        LET f == ret.findings
            c == ret.conclusion
            crit == PositionsOf(f, SEV_CRITICAL)
            sev == PositionsOf(f, SEV_SEVERE)
        IN  /\ crit # {} =>
                /\ c.primary_diagnosis = f[FirstOf(crit)].name
                /\ c.severity = SEV_CRITICAL
                /\ c.urgent_action_required
            /\ (crit = {} /\ sev # {}) =>
                /\ c.primary_diagnosis = f[FirstOf(sev)].name
                /\ c.severity = SEV_SEVERE
                /\ c.urgent_action_required

\* two Severe findings come before the first Critical one, which is the primary
C1_Witness ==
    /\ Interpreted
    /\ PositionsOf(ret.findings, SEV_CRITICAL) # {}
    /\ Cardinality({i \in PositionsOf(ret.findings, SEV_SEVERE) :
                       i < FirstOf(PositionsOf(ret.findings, SEV_CRITICAL))}) >= 2
    /\ ret.conclusion.primary_diagnosis
          = ret.findings[FirstOf(PositionsOf(ret.findings, SEV_CRITICAL))].name
    /\ ret.conclusion.primary_diagnosis # ret.findings[1].name
    /\ ret.conclusion.urgent_action_required

\* C2: with no Critical and no Severe finding, the primary diagnosis is the first
\* finding of the first non-empty group in the order Moderate, Mild, Benign, with that
\* group's severity and urgent_action_required false; with no finding at all it is
\* "Normal ECG" with severity Normal and urgent_action_required false.
C2_WalkOrder ==
    Interpreted =>
        LET f == ret.findings
            c == ret.conclusion
            mod == PositionsOf(f, SEV_MODERATE)
            mild == PositionsOf(f, SEV_MILD)
            ben == PositionsOf(f, SEV_BENIGN)
        IN  (PositionsOf(f, SEV_CRITICAL) = {} /\ PositionsOf(f, SEV_SEVERE) = {}) =>
                /\ ~c.urgent_action_required
                /\ mod # {} =>
                      c.primary_diagnosis = f[FirstOf(mod)].name /\ c.severity = SEV_MODERATE
                /\ (mod = {} /\ mild # {}) =>
                      c.primary_diagnosis = f[FirstOf(mild)].name /\ c.severity = SEV_MILD
                /\ (mod = {} /\ mild = {} /\ ben # {}) =>
                      c.primary_diagnosis = f[FirstOf(ben)].name /\ c.severity = SEV_BENIGN
                /\ f = <<>> =>
                      c.primary_diagnosis = NORMAL_ECG /\ c.severity = SEV_NORMAL

\* a Benign and a Mild finding come before the Moderate one that is the primary
C2_Witness ==
    /\ Interpreted
    /\ PositionsOf(ret.findings, SEV_CRITICAL) = {}
    /\ PositionsOf(ret.findings, SEV_SEVERE) = {}
    /\ PositionsOf(ret.findings, SEV_MODERATE) # {}
    /\ \E i \in PositionsOf(ret.findings, SEV_BENIGN) :
          i < FirstOf(PositionsOf(ret.findings, SEV_MODERATE))
    /\ \E i \in PositionsOf(ret.findings, SEV_MILD) :
          i < FirstOf(PositionsOf(ret.findings, SEV_MODERATE))
    /\ ret.conclusion.primary_diagnosis
          = ret.findings[FirstOf(PositionsOf(ret.findings, SEV_MODERATE))].name
    /\ ret.conclusion.severity = SEV_MODERATE
    /\ ~ret.conclusion.urgent_action_required

\* C3 as stated: an urgent conclusion (Critical or Severe) has the immediate follow-up
\* and the guarded prognosis; a non-urgent severe or moderate one the 1-2 week
\* follow-up and the fair prognosis; every other one the routine follow-up and the
\* good prognosis.
C3_KeyedByUrgency ==
    Interpreted =>
        LET c == ret.conclusion
        IN  IF c.urgent_action_required
            THEN c.follow_up = FOLLOW_IMMEDIATE /\ c.prognosis = PROGNOSIS_GUARDED
            ELSE IF c.severity \in {SEV_SEVERE, SEV_MODERATE}
            THEN c.follow_up = FOLLOW_WEEKS /\ c.prognosis = PROGNOSIS_FAIR
            ELSE c.follow_up = FOLLOW_ROUTINE /\ c.prognosis = PROGNOSIS_GOOD

\* C3 amended: the conclusion is urgent exactly when its severity is Critical or
\* Severe.  The follow-up is the immediate text when urgent, the 1-2 week text for
\* Moderate and the routine text for Mild, Benign and Normal.  The prognosis is
\* guarded for Critical, fair for Severe and good for every other severity.
C3_FollowUpAndPrognosis ==
    Interpreted =>
        LET c == ret.conclusion
        IN  /\ c.urgent_action_required <=> c.severity \in {SEV_CRITICAL, SEV_SEVERE}
            /\ c.follow_up = (IF c.severity \in {SEV_CRITICAL, SEV_SEVERE} THEN FOLLOW_IMMEDIATE
                              ELSE IF c.severity = SEV_MODERATE THEN FOLLOW_WEEKS
                              ELSE FOLLOW_ROUTINE)
            /\ c.prognosis = (IF c.severity = SEV_CRITICAL THEN PROGNOSIS_GUARDED
                              ELSE IF c.severity = SEV_SEVERE THEN PROGNOSIS_FAIR
                              ELSE PROGNOSIS_GOOD)

\* an urgent Severe conclusion: immediate follow-up, fair prognosis
C3_Witness ==
    /\ Interpreted
    /\ ret.conclusion.severity = SEV_SEVERE
    /\ ret.conclusion.urgent_action_required
    /\ ret.conclusion.follow_up = FOLLOW_IMMEDIATE
    /\ ret.conclusion.prognosis = PROGNOSIS_FAIR

\* the subsequence of s at the positions in 1..Len(s) that are not skip
Without(s, skip) ==
    LET idx == SelectSeq([i \in 1..Len(s) |-> i], LAMBDA i : i # skip)
    IN  [k \in 1..Len(idx) |-> s[idx[k]]]

FirstUpTo(s, n) == SubSeq(s, 1, IF Len(s) < n THEN Len(s) ELSE n)

\* the position of the finding chosen as primary, 0 when none is ("Normal ECG")
ChosenPosition ==
    LET at == {i \in 1..Len(ret.findings) :
                  /\ ret.findings[i].name = ret.conclusion.primary_diagnosis
                  /\ ret.findings[i].severity = ret.conclusion.severity}
    IN  IF at = {} THEN 0 ELSE FirstOf(at)

\* C4 as stated: additional_findings has at most 5 names, never contains
\* primary_diagnosis, and is the names, in order, of the first up to 5 findings other
\* than the one finding chosen as primary.
C4_AllButTheChosenFinding ==
    Interpreted =>
        LET a == ret.conclusion.additional_findings
        IN  /\ Len(a) <= 5
            /\ ret.conclusion.primary_diagnosis \notin Range(a)
            /\ a = FirstUpTo(Without([i \in 1..Len(ret.findings) |-> ret.findings[i].name],
                                     ChosenPosition), 5)

\* C4 amended: additional_findings has at most 5 names, never contains
\* primary_diagnosis, and is the names, in order, of the first up to 5 findings whose
\* name differs from primary_diagnosis (a finding of another pass with the same name
\* as the primary is left out as well).
C4_AllButTheChosenName ==
    Interpreted =>
        LET a == ret.conclusion.additional_findings
            f == ret.findings
            others == {i \in 1..Len(f) : f[i].name # ret.conclusion.primary_diagnosis}
        IN  /\ Len(a) <= 5
            /\ ret.conclusion.primary_diagnosis \notin Range(a)
            /\ Len(a) = (IF Cardinality(others) < 5 THEN Cardinality(others) ELSE 5)
            /\ \A k \in 1..Len(a) :
                  \E i \in others : /\ a[k] = f[i].name
                                    /\ Cardinality({j \in others : j < i}) = k - 1

\* the rhythm pass and the rate pass both report "Bradycardia"; the first is the
\* primary and the second is not listed
C4_Witness ==
    /\ Interpreted
    /\ Len(ret.findings) >= 3
    /\ ret.findings[1].name = "Bradycardia"
    /\ ret.findings[2].name = "Bradycardia"
    /\ ret.conclusion.primary_diagnosis = "Bradycardia"
    /\ ChosenPosition = 1
    /\ Len(ret.conclusion.additional_findings) = Len(ret.findings) - 2

\* the three sources of the recommendations
UrgentPart == IF ret.conclusion.urgent_action_required THEN <<REC_URGENT>> ELSE <<>>
ArrhythmiaPart ==
    IF args.arrhythmia = <<>> THEN <<>> ELSE FirstUpTo(args.arrhythmia[1].recommendations, 3)
QtPart ==
    IF args.qt_analysis = <<>> THEN <<>> ELSE FirstUpTo(args.qt_analysis[1].clinical_notes, 2)

\* C5: recommendations is never empty; it is the urgent notice, present exactly when
\* urgent_action_required, then the first up to 3 recommendations of the arrhythmia
\* report, then the first up to 2 clinical notes of the QT analysis; the two default
\* texts of the interpreter are the list exactly when these three parts are all empty.
C5_Recommendations ==
    Interpreted =>
        LET r == ret.conclusion.recommendations
            parts == UrgentPart \o ArrhythmiaPart \o QtPart
        IN  /\ r # <<>>
            /\ (r[1] = REC_URGENT) <=> ret.conclusion.urgent_action_required
            /\ \A i \in 2..Len(r) : r[i] # REC_URGENT
            /\ parts # <<>> => r = parts
            /\ parts = <<>> => r = REC_DEFAULT
            /\ REC_DEFAULT[2] \in Range(r) => parts = <<>>

\* an urgent conclusion with four arrhythmia recommendations and six QT notes on
\* offer: the notice, three recommendations and two notes
C5_Witness ==
    /\ Interpreted
    /\ ret.conclusion.urgent_action_required
    /\ args.arrhythmia # <<>>
    /\ Len(args.arrhythmia[1].recommendations) = 4
    /\ args.qt_analysis # <<>>
    /\ Len(args.qt_analysis[1].clinical_notes) = 6
    /\ Len(ret.conclusion.recommendations) = 6
    /\ ret.conclusion.recommendations[4] = args.arrhythmia[1].recommendations[3]
    /\ ret.conclusion.recommendations[5] = args.qt_analysis[1].clinical_notes[1]

(***************************************************************************)
(* Claims about the dispersion and the default report of the QT analyzer.  *)
(***************************************************************************)
\* C11: the QTAnalysis returned by analyze() has a non-null dispersion only when
\* its measurements span at least 2 distinct leads; when all measurements come
\* from exactly 1 lead, however many beats it has, dispersion is null.
C11_DispersionNeedsTwoLeads ==
    Analysed =>
        /\ ret.dispersion # <<>> => Len(LeadsOf(ret.measurements)) >= 2
        /\ Len(LeadsOf(ret.measurements)) = 1 => ret.dispersion = <<>>

\* two beats of the single lead II: a dispersion record, of 0 ms, is returned
C11_SingleLeadDispersion ==
    /\ Analysed
    /\ Len(args.signals) = 1
    /\ Len(ret.measurements) = 2
    /\ LeadsOf(ret.measurements) = <<"II">>
    /\ ret.dispersion # <<>>
    /\ ret.dispersion[1].dispersion = Rat(0, 1)
    /\ ~IsAbnormal(ret.dispersion)

\* analyze() was called and no lead yields a measurement: the peak map is None,
\* or the loop over the leads collects nothing
NoLeadMeasured ==
    /\ args.op = "analyze"
    /\ pc # "call"
    /\ \/ args.r_peaks = <<>>
       \/ MeasureLeads(args.signals, args.r_peaks[1], 1, analyzer.sample_rate) = <<>>

\* C12: analyze() never fails when no lead yields a measurement: whenever the
\* peak map is None, has no entry for a lead, has fewer than 2 peaks for every
\* lead, or every beat is skipped, it returns the default report (mean QT 400 ms,
\* mean QTc 420 ms, risk normal, no measurements, null dispersion, empty drug
\* list) and does not raise.
C12_DefaultInsteadOfRaising ==
    NoLeadMeasured =>
        /\ pc = "done"
        /\ ret.mean_qt = Rat(400, 1)
        /\ ret.mean_qtc = Rat(420, 1)
        /\ ret.risk_level = RISK_NORMAL
        /\ ret.measurements = <<>>
        /\ ret.dispersion = <<>>
        /\ ret.drug_interactions = <<>>

\* three leads and r_peaks = None, as the integration test calls it: TypeError
C12_NonePeakMapRaises ==
    /\ NoLeadMeasured
    /\ Len(args.signals) = 3
    /\ args.r_peaks = <<>>
    /\ pc = "raised"
    /\ ret = [error |-> "TypeError"]

(***************************************************************************)
(* Claims about the entry points.                                          *)
(***************************************************************************)
\* C13: an invalid configuration is rejected at the entry point: constructing
\* ArrhythmiaDetector or QTAnalyzer with a zero or negative sample_rate, or
\* calling interpret() with one, ends in an error and never returns an
\* instance or a report.
C13_InvalidRateRejected ==
    (pc # "call" /\ args.sample_rate <= 0) => pc = "raised"

\* ArrhythmiaDetector(0) returns an instance whose RR limits are both 0
C13_ZeroRateAccepted ==
    /\ pc = "done"
    /\ args = [op |-> "ArrhythmiaDetector", sample_rate |-> 0]
    /\ detector = [sample_rate |-> 0, min_rr_interval |-> 0, max_rr_interval |-> 0]
    /\ ret = detector

(***************************************************************************)
(* Claims about detect() on little or no data.                             *)
(***************************************************************************)
\* detect() was called on an empty lead mapping or on an analysis lead with fewer
\* than 2 peaks
InsufficientData ==
    /\ args.op = "detect"
    /\ pc # "call"
    /\ (args.signals = <<>> \/ AnalysedRR = <<>>)

\* the types the passes that read the RR intervals can detect
RRDependent == {BRADYCARDIA, TACHYCARDIA, AFIB, VT, VFIB, PVC, PAC, SECOND_DEGREE_BLOCK}

\* C14: detect() never raises on insufficient data: given an empty lead mapping
\* or an analysis lead with fewer than 2 peaks it returns a report in which the
\* rate, AFib, ventricular, ectopic and heart-block passes contributed no
\* detection, heart_rate_mean and heart_rate_std are 0 and rr_irregularity is 0;
\* with fewer than 3 RR intervals the ventricular and ectopic passes contribute
\* nothing.
C14_NoRaiseOnInsufficientData ==
    /\ InsufficientData =>
          /\ pc = "done"
          /\ \A i \in 1..Len(ret.detections) : ret.detections[i].type \notin RRDependent
          /\ ret.heart_rate = [num |-> 0, den |-> 0, std_zero |-> TRUE]
          /\ ret.rr_irregularity.num = 0
    /\ (args.op = "detect" /\ pc = "done" /\ Len(AnalysedRR) < VentMinIntervals) =>
          \A i \in 1..Len(ret.detections) : ret.detections[i].type \notin {VT, VFIB, PVC, PAC}

\* detect({}) leaves _select_primary_lead with StopIteration
C14_EmptyMappingRaises ==
    /\ InsufficientData
    /\ args.signals = <<>>
    /\ pc = "raised"
    /\ ret = [error |-> "StopIteration"]

(***************************************************************************)
(* Claims about the passes of the clinical interpreter.                    *)
(***************************************************************************)
\* the precordial leads of the call whose R-wave amplitude, max minus median, is
\* below 0.1 mV
LowRLeads ==
    {i \in 1..Len(args.signals) :
        /\ args.signals[i].name \in {"V1", "V2", "V3"}
        /\ args.signals[i].sig.len > 0
        /\ args.signals[i].sig.max - args.signals[i].sig.median < 10}

PoorRWaveIn(lead) ==
    CASE lead = "V1" -> "Poor R-Wave Progression in V1"
      [] lead = "V2" -> "Poor R-Wave Progression in V2"
      [] lead = "V3" -> "Poor R-Wave Progression in V3"

\* C15: interpret() returns a fully populated AutomatedFindings for every lead
\* mapping and does not raise; whenever a lead V1, V2 or V3 has an R-wave amplitude
\* below 0.1 mV, the findings hold one Mild "Poor R-Wave Progression" finding for
\* that lead, whose category is a member of FindingCategory.
C15_PoorRWaveProgression ==
    (args.op = "interpret" /\ pc # "call") =>
        /\ pc = "done"
        /\ \A i \in LowRLeads :
              Cardinality({k \in 1..Len(ret.findings) :
                              /\ ret.findings[k].name = PoorRWaveIn(args.signals[i].name)
                              /\ ret.findings[k].severity = SEV_MILD
                              /\ ret.findings[k].category \in FindingCategory}) = 1

\* lead V1 with an R wave of 0.09 mV: the finding is never built, AttributeError
C15_LowRWaveRaises ==
    /\ args.op = "interpret"
    /\ LowRLeads # {}
    /\ \E i \in LowRLeads :
          args.signals[i].name = "V1" /\ args.signals[i].sig.max = 9
    /\ pc = "raised"
    /\ ret = [error |-> "AttributeError"]

\* the age-adjusted normal range as C16 states it
AgeBand(patient_age) ==
    IF patient_age = <<>> THEN <<60, 100>>
    ELSE IF patient_age[1] < 1 THEN <<100, 160>>
    ELSE IF patient_age[1] < 3 THEN <<90, 150>>
    ELSE IF patient_age[1] < 10 THEN <<70, 120>>
    ELSE <<60, 100>>

\* a finding of the given name is in the report
HasFinding(name) == \E k \in 1..Len(ret.findings) : ret.findings[k].name = name

\* interpret() returned, for a measured heart rate and no arrhythmia report (whose
\* detections the rhythm pass would turn into findings of their own)
RateAssessed ==
    /\ Interpreted
    /\ args.intervals.heart_rate # <<>>
    /\ args.arrhythmia = <<>>

\* C16: the heart-rate pass uses the age-adjusted normal range for every supplied
\* age: 100-160 BPM for age 0, 90-150 for ages 1-2, 70-120 for ages 3-9, and
\* 60-100 for age 10 and above or when no age is supplied; a Bradycardia or a
\* Tachycardia finding is emitted exactly when the heart rate lies below or above
\* the range of that age.
C16_AgeAdjustedRange ==
    RateAssessed =>
        LET hr == args.intervals.heart_rate[1]
            band == AgeBand(args.patient_age)
        IN  /\ HasFinding("Bradycardia") <=> hr < band[1]
            /\ HasFinding("Tachycardia") <=> hr > band[2]

\* a newborn (age 0) at 95 BPM, below the infant range: no finding about the rate
C16_NewbornJudgedAsAdult ==
    /\ RateAssessed
    /\ args.patient_age = <<0>>
    /\ args.intervals.heart_rate = <<95>>
    /\ ~HasFinding("Bradycardia")
    /\ ~HasFinding("Tachycardia")

\* the mean amplitude of a lead of the call, in hundredths of a mV (<<>> is nan)
MeanOfLead(name) == MeanOf(SignalOf(args.signals, name))

\* the finding of the given name and severity is in the report
HasFindingOf(name, severity) ==
    \E k \in 1..Len(ret.findings) :
        ret.findings[k].name = name /\ ret.findings[k].severity = severity

AxisFindings == {"Left Axis Deviation", "Right Axis Deviation", "Extreme Axis Deviation"}

\* C17: the axis pass classifies by the sign of the mean amplitude of leads I and
\* aVF: normal axis and no finding when both are positive, a Mild left-deviation
\* finding when I is positive and aVF negative, a Moderate right-deviation finding
\* when I is negative and aVF positive, and the Severe extreme-axis finding only
\* when both means are negative; when lead I or aVF is missing, axis is null and
\* no finding is emitted.
C17_AxisBySign ==
    Interpreted =>
        IF ~HasLead(args.signals, "I") \/ ~HasLead(args.signals, "aVF")
        THEN ret.axis = <<>> /\ \A n \in AxisFindings : ~HasFinding(n)
        ELSE LET i == MeanOfLead("I")
                 avf == MeanOfLead("aVF")
             IN  /\ (Positive(i) /\ Positive(avf)) =>
                        ret.axis = <<AXIS_NORMAL>> /\ \A n \in AxisFindings : ~HasFinding(n)
                 /\ (Positive(i) /\ Negative(avf)) =>
                        ret.axis = <<AXIS_LEFT>> /\ HasFindingOf("Left Axis Deviation", SEV_MILD)
                 /\ (Negative(i) /\ Positive(avf)) =>
                        ret.axis = <<AXIS_RIGHT>>
                        /\ HasFindingOf("Right Axis Deviation", SEV_MODERATE)
                 /\ HasFindingOf("Extreme Axis Deviation", SEV_SEVERE) =>
                        Negative(i) /\ Negative(avf)

\* a lead I of mean exactly 0 with a positive aVF: extreme axis deviation, Severe,
\* and an urgent conclusion
C17_ZeroMeanIsExtreme ==
    /\ Interpreted
    /\ HasLead(args.signals, "I")
    /\ HasLead(args.signals, "aVF")
    /\ MeanOfLead("I") = <<0>>
    /\ Positive(MeanOfLead("aVF"))
    /\ ret.axis = <<AXIS_EXTREME>>
    /\ HasFindingOf("Extreme Axis Deviation", SEV_SEVERE)
    /\ ret.conclusion.urgent_action_required

(***************************************************************************)
(* Claims about the ventricular pass and the rate statistics of detect().  *)
(***************************************************************************)
\* the lead detect() analyses and the peaks it works on (arrhythmia.py, 103-109)
AnalysedLead == args.signals[SelectPrimaryLead(args.signals)]

AnalysedPeaks ==
    IF args.r_peaks = <<>> \/ AnalysedLead.name \notin DOMAIN args.r_peaks[1]
    THEN AnalysedLead.sig.detected
    ELSE args.r_peaks[1][AnalysedLead.name]

Detected == pc = "done" /\ args.op = "detect"

\* C18: the ventricular pass emits a VFib detection (confidence 0.90, severe)
\* whenever the normalized signal entropy exceeds 0.8 and either the peak count
\* is below 3 or the RR coefficient of variation exceeds 0.8; in particular a
\* chaotic signal with fewer than 3 detected peaks is reported as VFib.
C18_VFibWhenChaotic ==
    Detected =>
        ((/\ AnalysedLead.sig.entropy_pct > 80
          /\ (Len(AnalysedPeaks) < 3 \/ CvGt(AnalysedRR, 80)))
            => \E i \in 1..Len(ret.detections) :
                  /\ ret.detections[i].type = VFIB
                  /\ ret.detections[i].confidence = 90
                  /\ ret.detections[i].severity = "severe")

\* entropy 0.9 and two detected peaks: no VFib detection, no critical finding
C18_ChaoticFewPeaksMissed ==
    /\ Detected
    /\ AnalysedLead.sig.entropy_pct = 90
    /\ Len(AnalysedPeaks) = 2
    /\ \A i \in 1..Len(ret.detections) : ret.detections[i].type # VFIB
    /\ ret.critical_findings = <<>>

\* detect() returned for an analysis lead with at least 2 peaks, all spaced by rr
RegularLead(rr) ==
    /\ Detected
    /\ AnalysedRR # <<>>
    /\ \A i \in 1..Len(AnalysedRR) : AnalysedRR[i] = rr

FlutterFired == \E i \in 1..Len(ret.detections) : ret.detections[i].type = AFLUTTER

\* C19 as stated: for a lead whose peaks are perfectly regular with an RR spacing
\* of 800 samples at 500 Hz, detect() yields heart_rate_mean within 1 BPM of 75,
\* an RR coefficient of variation below 0.05, and a primary rhythm of Normal or
\* SinusArrhythmia with no critical findings.
C19_Regular800Is75 ==
    RegularLead(800) =>
        /\ 74 * ret.heart_rate.den <= ret.heart_rate.num
        /\ ret.heart_rate.num <= 76 * ret.heart_rate.den
        /\ CvLt(AnalysedRR, 5)
        /\ ret.primary_rhythm \in {NORMAL, SINUS_ARRHYTHMIA}
        /\ ret.critical_findings = <<>>

\* C19 amended: at 500 Hz a regular spacing of 800 samples is 1.6 s: detect()
\* yields heart_rate_mean 37.5 BPM with std 0, an RR coefficient of variation of
\* 0, a severe Bradycardia detection and the severe-bradycardia critical finding,
\* and the primary rhythm is Bradycardia (AtrialFlutter when the flutter pass
\* fires).  The regular spacing that yields 75 BPM is 400 samples (0.8 s): then
\* the coefficient of variation is 0, no pass but the flutter pass detects
\* anything, there is no critical finding, and the primary rhythm is Normal
\* (AtrialFlutter when the flutter pass fires).
C19_RegularSpacing ==
    /\ RegularLead(800) =>
          /\ 2 * ret.heart_rate.num = 75 * ret.heart_rate.den
          /\ ret.heart_rate.std_zero
          /\ ret.rr_irregularity.num = 0
          /\ CvLt(AnalysedRR, 5)
          /\ Occurrences(ret.detections, BRADYCARDIA) = 1
          /\ \A i \in 1..Len(ret.detections) :
                \/ ret.detections[i].type = BRADYCARDIA /\ ret.detections[i].severity = "severe"
                \/ ret.detections[i].type = AFLUTTER
          /\ ret.critical_findings = <<CRIT_BRADY>>
          /\ ret.primary_rhythm = (IF FlutterFired THEN AFLUTTER ELSE BRADYCARDIA)
    /\ RegularLead(400) =>
          /\ ret.heart_rate.num = 75 * ret.heart_rate.den
          /\ ret.heart_rate.std_zero
          /\ ret.rr_irregularity.num = 0
          /\ CvLt(AnalysedRR, 5)
          /\ \A i \in 1..Len(ret.detections) : ret.detections[i].type = AFLUTTER
          /\ ret.critical_findings = <<>>
          /\ ret.primary_rhythm = (IF FlutterFired THEN AFLUTTER ELSE NORMAL)

\* a recording of regular beats 800 samples apart, no flutter: Bradycardia, one
\* critical finding
C19_Witness ==
    /\ RegularLead(800)
    /\ Len(AnalysedRR) >= 4
    /\ ~FlutterFired
    /\ ret.primary_rhythm = BRADYCARDIA
    /\ ret.critical_findings = <<CRIT_BRADY>>
    /\ 2 * ret.heart_rate.num = 75 * ret.heart_rate.den

\* C20: whenever the report returned by detect() contains a Bradycardia detection,
\* its heart_rate_mean is below 60 BPM, for every sequence of RR intervals.
C20_BradycardiaMeansSlowMean ==
    (Detected /\ Occurrences(ret.detections, BRADYCARDIA) > 0) =>
        ret.heart_rate.num < 60 * ret.heart_rate.den

\* RR intervals of 300 and 900 samples at 500 Hz: the rate of the mean RR is 50 BPM,
\* a mild Bradycardia, and the mean of the two rates 100 and 33.3 is 66.7 BPM
C20_BradycardiaAt67 ==
    /\ Detected
    /\ AnalysedRR = <<300, 900>>
    /\ \E i \in 1..Len(ret.detections) :
          ret.detections[i].type = BRADYCARDIA /\ ret.detections[i].severity = "mild"
    /\ 3 * ret.heart_rate.num = 200 * ret.heart_rate.den

\* C21: whenever the report returned by detect() contains a Tachycardia detection,
\* its heart_rate_mean is above 100 BPM, for every sequence of positive RR
\* intervals: the mean of the per-beat rates is never below the rate of the mean
\* interval, from which the detection is decided.
C21_TachycardiaMeansFastMean ==
    (Detected /\ Occurrences(ret.detections, TACHYCARDIA) > 0) =>
        /\ \A i \in 1..Len(AnalysedRR) : AnalysedRR[i] > 0
        /\ ret.heart_rate.den > 0
        /\ ret.heart_rate.num > 100 * ret.heart_rate.den

\* RR intervals of 150 and 300 samples: a moderate Tachycardia at 133.3 BPM, the
\* rate of the mean interval, with a heart_rate_mean of 150 BPM
C21_Witness ==
    /\ Detected
    /\ AnalysedRR = <<150, 300>>
    /\ \E i \in 1..Len(ret.detections) :
          ret.detections[i].type = TACHYCARDIA /\ ret.detections[i].severity = "moderate"
    /\ ret.heart_rate.num = 150 * ret.heart_rate.den
    /\ ~ret.heart_rate.std_zero

\* detect() returned for at least 10 RR intervals whose coefficient of variation
\* exceeds 0.3
HighlyIrregular ==
    /\ Detected
    /\ Len(AnalysedRR) >= 10
    /\ CvGt(AnalysedRR, 30)

\* C22: for every peak sequence with at least 10 RR intervals whose coefficient of
\* variation exceeds 0.3, detect() reports rr_irregularity > 0.3 and a
\* primary_rhythm that is not Normal.
C22_IrregularIsNotNormal ==
    HighlyIrregular =>
        /\ 100 * ret.rr_irregularity.num > 9 * ret.rr_irregularity.den
        /\ ret.primary_rhythm # NORMAL

\* ten RR intervals alternating between 150 and 600 samples, narrow QRS: a
\* coefficient of variation of 0.6, no detection at all, primary rhythm Normal
C22_IrregularReportedNormal ==
    /\ HighlyIrregular
    /\ AnalysedRR = Repeat(<<150, 600>>, 5)
    /\ 25 * ret.rr_irregularity.num = 9 * ret.rr_irregularity.den
    /\ ret.detections = <<>>
    /\ ret.primary_rhythm = NORMAL
    /\ ret.recommendations = <<REC_ROUTINE>>

(***************************************************************************)
(* Claims about the measurements of the QT analyzer.                       *)
(***************************************************************************)
\* C23 as stated: every QTMeasurement produced by analyze() has all four
\* corrected values (Bazett, Fridericia, Framingham, Hodges) strictly positive and
\* a non-negative QT and RR, for every strictly increasing peak sequence,
\* including slow rhythms with RR of 2 s or more.
C23_AllCorrectionsPositive ==
    Analysed =>
        \A k \in 1..Len(ret.measurements) :
            LET m == ret.measurements[k]
            IN  /\ RatGtInt(m.qtc_bazett, 0)
                /\ m.qtc_fridericia.qt_ms.num > 0 /\ m.qtc_fridericia.cube_root_of.num > 0
                /\ RatGtInt(m.qtc_framingham, 0)
                /\ RatGtInt(m.qtc_hodges, 0)
                /\ m.qt_interval.num >= 0
                /\ m.rr_interval.num >= 0

\* C23 amended: every QTMeasurement has a QT of at least 150 ms and a positive
\* RR, and its Bazett, Fridericia and Hodges values are strictly positive; its
\* Framingham value QT + 154 (1 - RR) is strictly positive exactly when
\* QT > 154 (RR - 1), RR in seconds: always for RR up to 1.97 s, and not for
\* slow rhythms such as an RR of 4 s with a QT of 462 ms or less.
C23_CorrectionSigns ==
    Analysed =>
        \A k \in 1..Len(ret.measurements) :
            LET m == ret.measurements[k]
                \* 154 * (rr_sec - 1), in ms
                slack == Rat(154 * (m.rr_interval.num - 1000 * m.rr_interval.den),
                             1000 * m.rr_interval.den)
            IN  /\ ~RatLt(m.qt_interval, Rat(150, 1))
                /\ RatGtInt(m.rr_interval, 0)
                /\ RatGtInt(m.qtc_bazett, 0)
                /\ m.qtc_fridericia.qt_ms.num > 0 /\ m.qtc_fridericia.cube_root_of.num > 0
                /\ RatGtInt(m.qtc_hodges, 0)
                /\ RatGtInt(m.qtc_framingham, 0) <=> RatLt(slack, m.qt_interval)
                /\ ~RatGtInt(m.rr_interval, 1970) => RatGtInt(m.qtc_framingham, 0)
                /\ (m.rr_interval = Rat(4000, 1) /\ ~RatGtInt(m.qt_interval, 462))
                       => ~RatGtInt(m.qtc_framingham, 0)

\* a beat with an RR of 4 s and a QT of 450 ms: Framingham -12 ms, the three
\* other corrections positive
C23_Witness ==
    /\ Analysed
    /\ \E k \in 1..Len(ret.measurements) :
          /\ ret.measurements[k].rr_interval = Rat(4000, 1)
          /\ ret.measurements[k].qt_interval = Rat(450, 1)
          /\ ret.measurements[k].qtc_framingham = Rat(-12, 1)
          /\ ret.measurements[k].qtc_bazett = Rat(225, 1)
          /\ RatGtInt(ret.measurements[k].qtc_hodges, 0)

(***************************************************************************)
(* Claims about calls that interleave.                                     *)
(***************************************************************************)
\* what the call returns when it runs alone on an instance fresh from its
\* constructor
ResultAlone(call) ==
    IF call.op = "detect"
    THEN IF call.signals = <<>> THEN [error |-> "StopIteration"]
         ELSE DetectReport(NewDetector(DetectorRates[call.instance]),
                           call.signals, call.r_peaks)
    ELSE IF call.signals # <<>> /\ call.r_peaks = <<>> THEN [error |-> "TypeError"]
    ELSE AnalysisFor(NewAnalyzer(AnalyzerRates[call.instance]), call.signals,
                     call.r_peaks[1], call.gender)

\* every finished call has the result of the call run alone, and the instances
\* are as constructed
AsIfAlone ==
    /\ \A c \in Calls : pc[c] \in {"done", "raised"} => ret[c] = ResultAlone(args[c])
    /\ \A c \in Calls : pc[c] \in {"call", "running"} => ret[c] = NoResult
    /\ \A c, e \in Calls :
          (args[c] = args[e] /\ pc[c] = pc[e]) => ret[c] = ret[e]
    /\ detector = [i \in Instances |-> NewDetector(DetectorRates[i])]
    /\ analyzer = [i \in Instances |-> NewAnalyzer(AnalyzerRates[i])]

SeverityRank(severity) ==
    CHOOSE k \in 0..5 :
        <<SEV_NORMAL, SEV_BENIGN, SEV_MILD, SEV_MODERATE, SEV_SEVERE, SEV_CRITICAL>>[k + 1]
            = severity

\* the highest rank among the findings of the report, 0 when there is none
WorstRank ==
    IF ret.findings = <<>> THEN 0
    ELSE CHOOSE k \in 0..5 :
            /\ \E i \in 1..Len(ret.findings) : SeverityRank(ret.findings[i].severity) = k
            /\ \A i \in 1..Len(ret.findings) : SeverityRank(ret.findings[i].severity) <= k

\* C26: in every ClinicalConclusion, severity equals the maximum severity over
\* all findings under the order normal < benign < mild < moderate < severe <
\* critical (Normal when there are no findings), urgent_action_required is true
\* if and only if that maximum is Severe or Critical, and primary_diagnosis is
\* "Normal ECG" if and only if no finding is above Normal.
C26_ConclusionFollowsWorstFinding ==
    Interpreted =>
        /\ SeverityRank(ret.conclusion.severity) = WorstRank
        /\ ret.conclusion.urgent_action_required <=> WorstRank >= SeverityRank(SEV_SEVERE)
        /\ (ret.conclusion.primary_diagnosis = NORMAL_ECG) <=> WorstRank = 0

\* a report whose first finding is normal and whose worst finding, later in the
\* list, is moderate
C26_Witness ==
    /\ Interpreted
    /\ Len(ret.findings) >= 2
    /\ ret.findings[1].severity = SEV_NORMAL
    /\ WorstRank = SeverityRank(SEV_MODERATE)
    /\ ret.conclusion.severity = SEV_MODERATE
    /\ ~ret.conclusion.urgent_action_required

\* the detections of the report that have the given type
DetectionsOf(type) == SelectSeq(ret.detections, LAMBDA x : x.type = type)

\* C27: in every report returned by detect(), a VT detection is always
\* accompanied by a Tachycardia detection from the rate pass, the VT detection is
\* severe exactly when that Tachycardia detection is severe (rate above 150), and
\* a VT detection and a VFib detection never appear in the same report.
C27_VTComesWithTachycardia ==
    (Detected /\ DetectionsOf(VT) # <<>>) =>
        /\ Len(DetectionsOf(VT)) = 1
        /\ Len(DetectionsOf(TACHYCARDIA)) = 1
        /\ DetectionsOf(TACHYCARDIA)[1] = ret.detections[1]
        /\ DetectionsOf(VT)[1].severity = "severe"
              <=> DetectionsOf(TACHYCARDIA)[1].severity = "severe"
        /\ DetectionsOf(VT)[1].severity = "severe"
              <=> HrGt(AnalysedRR, detector.sample_rate, TachySevere)
        /\ DetectionsOf(VT)[1].severity \in {"severe", "moderate"}
        /\ DetectionsOf(VFIB) = <<>>
        /\ CvLt(AnalysedRR, VTCvPct)

\* a moderate VT next to a mild Tachycardia, in a chaotic signal
C27_Witness ==
    /\ Detected
    /\ DetectionsOf(VT) # <<>>
    /\ DetectionsOf(VT)[1].severity = "moderate"
    /\ DetectionsOf(TACHYCARDIA)[1].severity = "mild"
    /\ AnalysedLead.sig.entropy_pct > VFibEntropyPct

(***************************************************************************)
(* Claims about the measured QT interval.                                  *)
(***************************************************************************)
\* the segment lengths _measure_qt_intervals accepts: 0.2 to 0.8 times sample_rate
SegmentLengths ==
    IntTrunc(2 * analyzer.sample_rate, 10)..IntTrunc(8 * analyzer.sample_rate, 10)

\* C28: for every QTMeasurement produced from a strictly increasing peak
\* sequence, the QT interval is strictly shorter than the beat's RR interval and
\* strictly shorter than 800 ms: the T-wave end offset returned by
\* _find_t_wave_end is always an index inside the beat segment, whose length is
\* at most min(next R-peak - R-peak, 800 ms).
C28_QtInsideBeat ==
    Analysed =>
        /\ \A k \in 1..Len(ret.measurements) :
              /\ RatLt(ret.measurements[k].qt_interval, ret.measurements[k].rr_interval)
              /\ RatLt(ret.measurements[k].qt_interval, Rat(800, 1))
        /\ \A i \in 1..Len(args.signals), seglen \in SegmentLengths :
              LET t == FindTWaveEnd(args.signals[i].sig, seglen, analyzer.sample_rate)
              IN  t # <<>> /\ t[1] >= 0 /\ t[1] < seglen

\* a beat of 250 ms whose T-wave end is the default cut to the last index of the
\* segment (248 ms), and a beat of 4 s whose T wave ends at 798 ms
C28_Witness ==
    /\ Analysed
    /\ Len(ret.measurements) = 2
    /\ ret.measurements[1].rr_interval = Rat(250, 1)
    /\ ret.measurements[1].qt_interval = Rat(248, 1)
    /\ ret.measurements[2].rr_interval = Rat(4000, 1)
    /\ ret.measurements[2].qt_interval = Rat(798, 1)

(***************************************************************************)
(* Claims about ties between detection counts.                             *)
(***************************************************************************)
\* the types with the largest number of detections in the list
MostDetected(detections) ==
    {t \in ArrhythmiaType :
        /\ Occurrences(detections, t) > 0
        /\ \A u \in ArrhythmiaType : Occurrences(detections, t) >= Occurrences(detections, u)}

\* the position of the first detection of the type
FirstDetection(detections, t) ==
    FirstOf({i \in 1..Len(detections) : detections[i].type = t})

\* C29: when no priority type qualifies and several types tie for the highest
\* detection count, _determine_primary_rhythm returns the tied type whose first
\* detection occurs earliest in the detections list; the choice never depends on
\* confidence or severity.
C29_TieGoesToFirstDetected ==
    (/\ pc = "done"
     /\ args.detections # <<>>
     /\ \A p \in 1..Len(PriorityOrder) : ~HasConfident(args.detections, PriorityOrder[p])) =>
        /\ ret.primary_rhythm \in MostDetected(args.detections)
        /\ \A u \in MostDetected(args.detections) :
              FirstDetection(args.detections, ret.primary_rhythm)
                  <= FirstDetection(args.detections, u)

\* two PACs at 0.75 around two bradycardias at 0.95: the counts tie and PAC, detected
\* first, is returned
C29_Witness ==
    /\ pc = "done"
    /\ Len(args.detections) = 4
    /\ args.detections[1].type = PAC /\ args.detections[4].type = PAC
    /\ args.detections[2].type = BRADYCARDIA /\ args.detections[3].type = BRADYCARDIA
    /\ args.detections[2].confidence > args.detections[1].confidence
    /\ ret.primary_rhythm = PAC

\* C30: the rhythm text and the rhythm findings of one interpret() call agree:
\* rhythm_description reads "Irregularly irregular rhythm" only when the findings
\* list contains the "Irregular Rhythm" finding (RR coefficient of variation
\* above 0.3 with no arrhythmia report), and for an RR coefficient of variation
\* below 0.1 the rhythm is labelled regular with no irregularity finding.
C30_RhythmTextAgreesWithFindings ==
    Interpreted =>
        /\ ret.rhythm_description = "Irregularly irregular rhythm" =>
              /\ HasFinding("Irregular Rhythm")
              /\ args.arrhythmia = <<>>
              /\ CvGt(args.intervals.rr_intervals, IrregularCvPct)
        /\ (/\ args.arrhythmia = <<>>
            /\ args.intervals.rr_intervals # <<>>
            /\ CvLt(args.intervals.rr_intervals, RegularCvPct)) =>
              /\ ret.rhythm_description = "Regular sinus rhythm"
              /\ ~HasFinding("Irregular Rhythm")

\* RR intervals of 800 and 1000 ms (coefficient of variation 0.11), no arrhythmia
\* report: the text reads irregularly irregular and no rhythm finding is made
C30_IrregularTextWithoutFinding ==
    /\ Interpreted
    /\ args.arrhythmia = <<>>
    /\ args.intervals.rr_intervals = <<800, 1000>>
    /\ ret.rhythm_description = "Irregularly irregular rhythm"
    /\ ~HasFinding("Irregular Rhythm")
    /\ ~HasFinding("Regular Sinus Rhythm")
    /\ \A i \in 1..Len(ret.findings) : ret.findings[i].category # CAT_RHYTHM

====
